---- MODULE Spec2Model ----
(***************************************************************************)
(* Model of packages/wallet/main.go: DeriveTronAddressFromMnemonic and     *)
(* PrivateKeyToTronAddress, together with the library calls they make      *)
(* (bip39.NewSeed, bip32.NewMasterKey / NewChildKey, math/big SetBytes /   *)
(* Bytes, elliptic.P256().ScalarBaseMult, sha3 legacy Keccak-256,          *)
(* hex.EncodeToString, base58.Encode); of Config.LoadConfig in             *)
(* packages/shared/config/config.go; and of DbConnect in                   *)
(* packages/shared/db/cocroach.go.  Spec is the specification of the       *)
(* callers of the wallet functions, SpecConcurrent the one of goroutines   *)
(* calling them concurrently, SpecConfig and SpecDb the ones of the        *)
(* callers of LoadConfig and DbConnect.                                    *)
(*                                                                         *)
(* Widths.  Bytes are real bytes (0..255); a uint32 is a pair of 16-bit    *)
(* halves, so the child numbers keep their 32 bits; the Keccak digest,     *)
(* the address payload, the checksum and the base-58 text keep their real  *)
(* lengths (32, 21, 4, 25 bytes).  The two elliptic curves and the key     *)
(* length are scaled down: a private key and a coordinate take two bytes   *)
(* instead of 32, secp256k1 is y^2 = x^3 + 7 over F_2089 (prime order      *)
(* 2143) and P-256 is y^2 = x^3 - 3x + 64 over F_1543 (prime order 1523).  *)
(* As for the real curves the two orders differ and the P-256 order is the *)
(* smaller.  The hash functions are small keyed mixing functions with the  *)
(* real output lengths relative to the key length; nothing is claimed from *)
(* them beyond being functions of their input bytes.                       *)
(***************************************************************************)
EXTENDS Integers, Sequences, FiniteSets, TLC

VARIABLES
    mnemonicSecret,   \* package-level var, main.go:19
    index,            \* package-level var, main.go:20
    last,             \* the call that returned (or panicked) last
    prev,             \* an earlier call kept for comparison with last
    goroutines,       \* the calls running concurrently, one per goroutine
    config,           \* a Config value, the receiver of LoadConfig
    loaded,           \* the LoadConfig call that returned last
    db,               \* the DbConnect call that returned last
    pools,            \* the open connection pools: id, and whether a caller got it
    clients,          \* the rows of the table clients
    accounts,         \* the rows of the table accounts
    accountsColumns,  \* the columns of the table accounts in the database
    query             \* the statement executed last, with its result

\* the variables of the concurrent callers
goVars == <<goroutines>>

\* the variables of packages/shared/config
configVars == <<config, loaded>>

\* the variables of packages/shared/db
dbVars == <<db, pools>>

\* the variables of the database of packages/shared/db/migrations
sqlVars == <<clients, accounts, accountsColumns, query>>

vars ==
    <<mnemonicSecret, index, last, prev, goVars, configVars, dbVars, sqlVars>>

----------------------------------------------------------------------------
(* Byte strings and text.  A Go string or []byte is a sequence of bytes;   *)
(* text produced by hex and base58 is a sequence of one-character strings. *)

Byte == 0..255

RECURSIVE Zeros(_)
Zeros(n) == IF n <= 0 THEN <<>> ELSE <<0>> \o Zeros(n - 1)

\* the ASCII bytes of the literals that appear in the program and libraries
BitcoinSeed == <<66, 105, 116, 99, 111, 105, 110, 32, 115, 101, 101, 100>>
MnemonicSalt == <<109, 110, 101, 109, 111, 110, 105, 99>>

----------------------------------------------------------------------------
(* math/big: SetBytes reads a big-endian unsigned integer and ignores      *)
(* leading zero bytes; Bytes writes the minimal big-endian form, so zero   *)
(* is the empty slice and leading zero bytes are never produced.           *)

RECURSIVE SetBytes(_)
SetBytes(b) ==
    IF b = <<>> THEN 0
    ELSE SetBytes(SubSeq(b, 1, Len(b) - 1)) * 256 + b[Len(b)]

RECURSIVE Bytes(_)
Bytes(v) == IF v = 0 THEN <<>> ELSE Bytes(v \div 256) \o <<v % 256>>

\* bytes.Compare(a, b) >= 0 : lexicographic order on byte slices
RECURSIVE BytesGeq(_, _)
BytesGeq(a, b) ==
    IF b = <<>> THEN TRUE
    ELSE IF a = <<>> THEN FALSE
    ELSE IF a[1] # b[1] THEN a[1] > b[1]
    ELSE BytesGeq(Tail(a), Tail(b))

----------------------------------------------------------------------------
(* Hash functions.  Each absorbs its input bytes in order into a state of *)
(* two 15-bit words and squeezes the requested number of bytes from the    *)
(* final state.                                                            *)

HashMix(h, b) ==
    << ((h[1] + b + 1) * (h[1] + b + 1) + 251 * h[1] + h[2] + 7) % 32749,
       ((h[2] + b + 3) * (h[2] + b + 3) + 241 * h[2] + h[1] + 11) % 32719 >>

(* The state after absorbing data[lo..hi], left to right.  The range is   *)
(* halved to keep the evaluation shallow; the test on the left half's      *)
(* state makes it be computed before the right half starts.                *)
RECURSIVE HashAbsorbRange(_, _, _, _)
HashAbsorbRange(h, data, lo, hi) ==
    IF lo > hi THEN h
    ELSE IF lo = hi THEN HashMix(h, data[lo])
    ELSE LET left == HashAbsorbRange(h, data, lo, (lo + hi) \div 2)
         IN  IF left[1] >= 0
             THEN HashAbsorbRange(left, data, ((lo + hi) \div 2) + 1, hi)
             ELSE left

HashAbsorb(h, data) == HashAbsorbRange(h, data, 1, Len(data))

\* the output byte of a state
HashByte(h) == (h[1] + h[2]) % 256

\* output bytes lo..hi of the state h: byte j is derived from h and j
RECURSIVE HashSqueezeRange(_, _, _)
HashSqueezeRange(h, lo, hi) ==
    IF lo > hi THEN <<>>
    ELSE IF lo = hi THEN <<HashByte(HashMix(h, lo))>>
    ELSE HashSqueezeRange(h, lo, (lo + hi) \div 2)
         \o HashSqueezeRange(h, ((lo + hi) \div 2) + 1, hi)

HashSqueeze(h, n) == HashSqueezeRange(h, 1, n)

\* length in bytes of a legacy Keccak-256 digest
KeccakSize == 32

\* sha3.NewLegacyKeccak256(); Write(data); Sum(nil)
Keccak256(data) == HashSqueeze(HashAbsorb(<<598, 256>>, data), KeccakSize)

----------------------------------------------------------------------------
(* Elliptic curves y^2 = x^3 + a*x + b over F_p with base point G of prime *)
(* order n; size is the byte length of a scalar and of a coordinate.  The  *)
(* point at infinity is written Infinity.                                  *)

\* btcec.S256(), the curve of go-bip32
Secp256k1 == [name |-> "secp256k1", p |-> 2089, a |-> 0, b |-> 7,
              G |-> <<1, 777>>, n |-> 2143, size |-> 2]

\* elliptic.P256(), main.go:73
P256 == [name |-> "P-256", p |-> 1543, a |-> 1540, b |-> 64,
         G |-> <<1, 338>>, n |-> 1523, size |-> 2]

Infinity == <<-1, -1>>

\* x^e modulo p, by squaring
RECURSIVE ModPow(_, _, _)
ModPow(x, e, p) ==
    IF e = 0 THEN 1
    ELSE IF e % 2 = 0 THEN ModPow((x * x) % p, e \div 2, p)
    ELSE (x * ModPow((x * x) % p, e \div 2, p)) % p

\* the inverse of x modulo the prime p
ModInv(x, p) == ModPow(x % p, p - 2, p)

\* the slope of the tangent at P (P = Q) or of the chord through P and Q
Slope(curve, P, Q) ==
    IF P = Q
    THEN (((3 * P[1] * P[1] + curve.a) % curve.p)
          * ModInv((2 * P[2]) % curve.p, curve.p)) % curve.p
    ELSE (((Q[2] - P[2]) % curve.p) * ModInv((Q[1] - P[1]) % curve.p, curve.p))
         % curve.p

\* the third point of the line of slope l through P and Q, reflected
ThirdPoint(curve, P, Q, l) ==
    LET x == (l * l - P[1] - Q[1]) % curve.p
    IN  <<x, (l * (P[1] - x) - P[2]) % curve.p>>

PointAdd(curve, P, Q) ==
    IF P = Infinity THEN Q
    ELSE IF Q = Infinity THEN P
    ELSE IF P[1] = Q[1] /\ (P[2] + Q[2]) % curve.p = 0 THEN Infinity
    ELSE ThirdPoint(curve, P, Q, Slope(curve, P, Q))

PointDouble(curve, P) == PointAdd(curve, P, P)

\* k*G from d = 2 * (k div 2) * G
AddLowBit(curve, k, d) == IF k % 2 = 0 THEN d ELSE PointAdd(curve, d, curve.G)

\* k*G for 1 <= k < n, by doubling and adding
RECURSIVE ScalarMult(_, _)
ScalarMult(curve, k) ==
    IF k = 1 THEN curve.G
    ELSE AddLowBit(curve, k, PointDouble(curve, ScalarMult(curve, k \div 2)))

(* curve.ScalarBaseMult(scalar): the scalar bytes are read as a big-endian *)
(* integer and reduced modulo the group order; the point at infinity is    *)
(* returned as the affine pair (0, 0).                                     *)
ScalarBaseMult(curve, scalar) ==
    IF SetBytes(scalar) % curve.n = 0
    THEN <<0, 0>>
    ELSE ScalarMult(curve, SetBytes(scalar) % curve.n)

----------------------------------------------------------------------------
(* crypto/hmac over SHA-512 and PBKDF2: the digest is twice the key length *)
(* (64 bytes for 32-byte keys).  256 separates the key from the message.   *)

KeyLen == Secp256k1.size

HmacSha512(key, data) ==
    HashSqueeze(HashAbsorb(HashMix(HashAbsorb(<<99, 512>>, key), 256), data),
                2 * KeyLen)

\* pbkdf2.Key(password, salt, 2048, 64, sha512.New)
Pbkdf2(password, salt) ==
    HashSqueeze(HashAbsorb(HashMix(HashAbsorb(<<57, 2048>>, password), 256), salt),
                2 * KeyLen)

\* bip39.NewSeed(mnemonic, password)
NewSeed(mnemonic, password) == Pbkdf2(mnemonic, MnemonicSalt \o password)

----------------------------------------------------------------------------
(* uint32 values are pairs <<hi, lo>> of 16-bit halves.                    *)

U32(hi, lo) == <<hi, lo>>

\* bip32.FirstHardenedChild = 0x80000000
FirstHardenedChild == U32(32768, 0)

\* uint32 addition of a small constant, wrapping at 2^32
U32Add(x, k) ==
    U32((x[1] + ((x[2] + k) \div 65536)) % 65536, (x[2] + k) % 65536)

U32Geq(x, y) == x[1] > y[1] \/ (x[1] = y[1] /\ x[2] >= y[2])

\* bip32 uint32Bytes: 4 bytes, big-endian
uint32Bytes(i) == <<i[1] \div 256, i[1] % 256, i[2] \div 256, i[2] % 256>>

----------------------------------------------------------------------------
(* go-bip32 keys.  NilKey stands for a nil *bip32.Key.                      *)

NilKey == [nil |-> TRUE, Key |-> <<>>, ChainCode |-> <<>>, Depth |-> 0,
           ChildNumber |-> <<>>, IsPrivate |-> FALSE]

NoError == "nil"
ErrInvalidPrivateKey == "Invalid private key"

\* bip32 validatePrivateKey: zero, not below the curve order, or wrong length
validatePrivateKey(key) ==
    IF key = Zeros(Len(key)) \/ BytesGeq(key, Bytes(Secp256k1.n)) \/ Len(key) # KeyLen
    THEN ErrInvalidPrivateKey
    ELSE NoError

\* the (key, error) pair a bip32 constructor returns for the key bytes
KeyOrError(keyBytes, chainCode, depth, childNumber, isPrivate) ==
    IF validatePrivateKey(keyBytes) # NoError
    THEN [key |-> NilKey, err |-> validatePrivateKey(keyBytes)]
    ELSE [key |-> [nil |-> FALSE, Key |-> keyBytes, ChainCode |-> chainCode,
                   Depth |-> depth, ChildNumber |-> childNumber,
                   IsPrivate |-> isPrivate],
          err |-> NoError]

\* the master key made of the two halves of the HMAC digest
MasterKeyFrom(intermediary) ==
    KeyOrError(SubSeq(intermediary, 1, KeyLen),
               SubSeq(intermediary, KeyLen + 1, 2 * KeyLen),
               0, <<0, 0, 0, 0>>, TRUE)

\* bip32.NewMasterKey(seed)
NewMasterKey(seed) == MasterKeyFrom(HmacSha512(BitcoinSeed, seed))

\* bip32 compressPublicKey: 0x02 + parity of y, then x left-padded to the key length
compressPublicKey(x, y) ==
    <<2 + (y % 2)>> \o Zeros(KeyLen - Len(Bytes(x))) \o Bytes(x)

CompressPoint(P) == compressPublicKey(P[1], P[2])

\* bip32 publicKeyForPrivateKey
publicKeyForPrivateKey(key) == CompressPoint(ScalarBaseMult(Secp256k1, key))

\* whether NewChildKey treats the child number as hardened
IsHardened(childIdx) == U32Geq(childIdx, FirstHardenedChild)

\* the HMAC message of bip32 getIntermediary
IntermediaryData(key, childIdx) ==
    (IF IsHardened(childIdx)
     THEN <<0>> \o key.Key
     ELSE IF key.IsPrivate THEN publicKeyForPrivateKey(key.Key) ELSE key.Key)
    \o uint32Bytes(childIdx)

getIntermediary(key, childIdx) ==
    HmacSha512(key.ChainCode, IntermediaryData(key, childIdx))

\* b left-padded with zero bytes to the key length
PadToKeyLen(b) == Zeros(KeyLen - Len(b)) \o b

\* bip32 addPrivateKeys: sum modulo the curve order, left-padded to the key length
addPrivateKeys(key1, key2) ==
    PadToKeyLen(Bytes((SetBytes(key1) + SetBytes(key2)) % Secp256k1.n))

\* the child key made of the parent and the two halves of the HMAC digest
ChildKeyFrom(key, childIdx, intermediary) ==
    KeyOrError(addPrivateKeys(SubSeq(intermediary, 1, KeyLen), key.Key),
               SubSeq(intermediary, KeyLen + 1, 2 * KeyLen),
               key.Depth + 1, uint32Bytes(childIdx), key.IsPrivate)

(* key.NewChildKey(childIdx) on a non-nil private key: the child key, or   *)
(* (nil, error) when the child scalar is invalid.                          *)
NewChildKey(key, childIdx) ==
    ChildKeyFrom(key, childIdx, getIntermediary(key, childIdx))

----------------------------------------------------------------------------
(* encoding/hex.  Text is a sequence of one-character strings.             *)

HexDigits == <<"0", "1", "2", "3", "4", "5", "6", "7",
               "8", "9", "a", "b", "c", "d", "e", "f">>
HexUpper == <<"0", "1", "2", "3", "4", "5", "6", "7",
              "8", "9", "A", "B", "C", "D", "E", "F">>

(* A variant of EncodeToString that prints the key as a number           *)
(* (fmt.Sprintf("%x", n)): the leading zero digits are lost.               *)
RECURSIVE DropLeadingZeroDigits(_)
DropLeadingZeroDigits(t) ==
    IF t # <<>> /\ t[1] = "0" THEN DropLeadingZeroDigits(Tail(t)) ELSE t

RECURSIVE EncodeAsNumber(_)
EncodeAsNumber(b) ==
    IF b = <<>> THEN <<>>
    ELSE EncodeAsNumber(SubSeq(b, 1, Len(b) - 1))
         \o <<HexDigits[(b[Len(b)] \div 16) + 1], HexDigits[(b[Len(b)] % 16) + 1]>>

EncodeToStringAsNumber(b) == DropLeadingZeroDigits(EncodeAsNumber(b))

\* hex.EncodeToString: two lower-case digits per byte
RECURSIVE EncodeToString(_)
EncodeToString(b) ==
    IF b = <<>> THEN <<>>
    ELSE <<HexDigits[(b[1] \div 16) + 1], HexDigits[(b[1] % 16) + 1]>>
         \o EncodeToString(Tail(b))

IsHexChar(c) == \E v \in 1..16 : HexDigits[v] = c \/ HexUpper[v] = c
HexValue(c) == (CHOOSE v \in 1..16 : HexDigits[v] = c \/ HexUpper[v] = c) - 1

RECURSIVE HexPairs(_)
HexPairs(t) ==
    IF t = <<>> THEN <<>>
    ELSE <<HexValue(t[1]) * 16 + HexValue(t[2])>> \o HexPairs(SubSeq(t, 3, Len(t)))

\* hex.DecodeString: fails on an odd length or on a character that is no hex digit
DecodeString(t) ==
    IF Len(t) % 2 # 0 \/ \E k \in 1..Len(t) : ~IsHexChar(t[k])
    THEN [bytes |-> <<>>, err |-> "hex: invalid input"]
    ELSE [bytes |-> HexPairs(t), err |-> NoError]

----------------------------------------------------------------------------
(* btcutil/base58: the number denoted by the bytes in radix 58, most       *)
(* significant digit first, with one "1" for every leading zero byte.      *)

Base58Alphabet ==
    <<"1", "2", "3", "4", "5", "6", "7", "8", "9",
      "A", "B", "C", "D", "E", "F", "G", "H", "J", "K", "L", "M", "N", "P",
      "Q", "R", "S", "T", "U", "V", "W", "X", "Y", "Z",
      "a", "b", "c", "d", "e", "f", "g", "h", "i", "j", "k", "m", "n", "o",
      "p", "q", "r", "s", "t", "u", "v", "w", "x", "y", "z">>

RECURSIVE StripZeros(_)
StripZeros(b) == IF b # <<>> /\ b[1] = 0 THEN StripZeros(Tail(b)) ELSE b

RECURSIVE LeadingCount(_, _)
LeadingCount(s, x) ==
    IF s # <<>> /\ s[1] = x THEN 1 + LeadingCount(Tail(s), x) ELSE 0

\* big.Int DivMod by 58 on the big-endian bytes b[lo..hi] with the incoming
\* remainder r: <<quotient bytes, remainder>>
RECURSIVE DivMod58Range(_, _, _, _)
DivMod58Range(b, lo, hi, r) ==
    IF lo > hi THEN <<<<>>, r>>
    ELSE IF lo = hi
    THEN <<<<(r * 256 + b[lo]) \div 58>>, (r * 256 + b[lo]) % 58>>
    ELSE LET left == DivMod58Range(b, lo, (lo + hi) \div 2, r)
             right == DivMod58Range(b, ((lo + hi) \div 2) + 1, hi, left[2])
         IN  IF left[2] >= 0 THEN <<left[1] \o right[1], right[2]>> ELSE left

DivMod58(b, r) == DivMod58Range(b, 1, Len(b), r)

RECURSIVE Base58Digits(_)
Base58Digits(x) ==
    IF x = <<>> THEN <<>>
    ELSE LET qr == DivMod58(x, 0)
         IN  Base58Digits(StripZeros(qr[1])) \o <<Base58Alphabet[qr[2] + 1]>>

RECURSIVE Repeat(_, _)
Repeat(c, n) == IF n <= 0 THEN <<>> ELSE <<c>> \o Repeat(c, n - 1)

\* base58.Encode
Base58Encode(b) ==
    Repeat("1", LeadingCount(b, 0)) \o Base58Digits(StripZeros(b))

IsBase58Char(c) == \E v \in 1..58 : Base58Alphabet[v] = c
Base58Value(c) == (CHOOSE v \in 1..58 : Base58Alphabet[v] = c) - 1

\* b[lo..hi] * 58 + c on big-endian bytes: <<carry out, product bytes>>
RECURSIVE MulAdd58Range(_, _, _, _)
MulAdd58Range(b, lo, hi, c) ==
    IF lo > hi THEN <<c, <<>>>>
    ELSE IF lo = hi
    THEN <<(b[lo] * 58 + c) \div 256, <<(b[lo] * 58 + c) % 256>>>>
    ELSE LET right == MulAdd58Range(b, ((lo + hi) \div 2) + 1, hi, c)
             left == MulAdd58Range(b, lo, (lo + hi) \div 2, right[1])
         IN  IF right[1] >= 0 THEN <<left[1], left[2] \o right[2]>> ELSE right

\* x * 58 + c on minimal big-endian bytes
MulAdd58(b, c) ==
    LET r == MulAdd58Range(b, 1, Len(b), c) IN Bytes(r[1]) \o r[2]

\* the number denoted by the digits t[lo..hi], added to acc * 58^(hi-lo+1)
RECURSIVE Base58NumberRange(_, _, _, _)
Base58NumberRange(t, lo, hi, acc) ==
    IF lo > hi THEN acc
    ELSE IF lo = hi THEN MulAdd58(acc, Base58Value(t[lo]))
    ELSE LET left == Base58NumberRange(t, lo, (lo + hi) \div 2, acc)
         IN  IF Len(left) >= 0
             THEN Base58NumberRange(t, ((lo + hi) \div 2) + 1, hi, left)
             ELSE left

Base58Number(t, acc) == Base58NumberRange(t, 1, Len(t), acc)

\* base58.Decode: the empty slice on a character outside the alphabet
Base58Decode(t) ==
    IF \E k \in 1..Len(t) : ~IsBase58Char(t[k]) THEN <<>>
    ELSE Zeros(LeadingCount(t, "1")) \o Base58Number(t, <<>>)

----------------------------------------------------------------------------
(* PrivateKeyToTronAddress, main.go:70-98.                                 *)

\* the TRON address prefix 0x41, main.go:88
VersionByte == 65
\* sum[12:], main.go:88
PayloadOffset == 12
\* checksumHash.Sum(nil)[:4], main.go:93
ChecksumLen == 4

\* main.go:80: append([]byte{0x04}, append(X.Bytes(), Y.Bytes()...)...)
EncodePublicKey(X, Y) == <<4>> \o Bytes(X) \o Bytes(Y)

(* A variant of AddressBytes that leaves the version byte out and takes   *)
(* one more byte of the digest instead.                                    *)
AddressBytesNoVersion(sum) == SubSeq(sum, PayloadOffset, Len(sum))

(* A variant of AddressBytes that takes the first twenty bytes of the     *)
(* digest instead of the last twenty.                                      *)
AddressBytesFirstBytes(sum) ==
    <<VersionByte>> \o SubSeq(sum, 1, Len(sum) - PayloadOffset)

\* main.go:88: append([]byte{0x41}, sum[12:]...)
AddressBytes(sum) == <<VersionByte>> \o SubSeq(sum, PayloadOffset + 1, Len(sum))

(* A variant of Checksum that hashes twice, as the Base58Check checksum   *)
(* of other chains does.                                                   *)
ChecksumDoubleHash(addressBytes) ==
    SubSeq(Keccak256(Keccak256(addressBytes)), 1, ChecksumLen)

\* main.go:91-93: one Keccak-256 over the address bytes, first four bytes
Checksum(addressBytes) == SubSeq(Keccak256(addressBytes), 1, ChecksumLen)

\* main.go:72-77: the public key point of the scalar d.Bytes()
(* A variant of PublicKeyPoint that multiplies on the curve of the key      *)
(* derivation.                                                             *)
PublicKeyPointOnSecp256k1(privateKey) ==
    ScalarBaseMult(Secp256k1, Bytes(SetBytes(privateKey)))

PublicKeyPoint(privateKey) == ScalarBaseMult(P256, Bytes(SetBytes(privateKey)))

\* main.go:96: append(addressBytes, checksum...)
FullAddress(addressBytes) == addressBytes \o Checksum(addressBytes)

\* main.go:83-97: from the bytes written to the first hash to the address text
AddressOfHashed(hashed) ==
    Base58Encode(FullAddress(AddressBytes(Keccak256(hashed))))

NoEncoding ==
    [called |-> FALSE, privateKey |-> <<>>, d |-> 0, curve |-> "", scalar |-> <<>>,
     X |-> 0, Y |-> 0, pubKey |-> <<>>, hashed |-> <<>>,
     address |-> <<>>, err |-> NoError, panic |-> FALSE, after |-> <<>>]

(* The results (address, err) with the values of the locals, among them    *)
(* the bytes written to the first hash (hashed = pubKey[1:]), for the      *)
(* public key point Q; after is the caller's slice when the call returns.  *)
EncodingOf(privateKey, Q) ==
    [called |-> TRUE, privateKey |-> privateKey, d |-> SetBytes(privateKey),
     curve |-> P256.name, scalar |-> Bytes(SetBytes(privateKey)),
     X |-> Q[1], Y |-> Q[2], pubKey |-> EncodePublicKey(Q[1], Q[2]),
     hashed |-> Tail(EncodePublicKey(Q[1], Q[2])),
     address |-> AddressOfHashed(Tail(EncodePublicKey(Q[1], Q[2]))),
     err |-> NoError, panic |-> FALSE, after |-> privateKey]

\* what a variant that refuses the key returns
Refused(privateKey) ==
    [NoEncoding EXCEPT !.called = TRUE, !.privateKey = privateKey,
                       !.d = SetBytes(privateKey), !.curve = P256.name,
                       !.err = "invalid private key", !.after = privateKey]

(* A variant of PrivateKeyToTronAddress that refuses a scalar that is not  *)
(* below the order of the curve.                                           *)
PrivateKeyToTronAddressBelowOrder(privateKey) ==
    IF SetBytes(privateKey) >= P256.n
    THEN Refused(privateKey)
    ELSE EncodingOf(privateKey, PublicKeyPoint(privateKey))

\* A variant of PrivateKeyToTronAddress that refuses the scalar zero.
PrivateKeyToTronAddressNonZero(privateKey) ==
    IF SetBytes(privateKey) = 0
    THEN Refused(privateKey)
    ELSE EncodingOf(privateKey, PublicKeyPoint(privateKey))

(* A variant of PrivateKeyToTronAddress that copies the key to the front  *)
(* of a buffer one byte longer than a key, so that a shorter key is padded *)
(* with zero bytes on the right.                                           *)
PrivateKeyToTronAddressRightPadded(privateKey) ==
    EncodingOf(privateKey,
               PublicKeyPoint(privateKey
                              \o Zeros(KeyLen + 1 - Len(privateKey))))

(* A variant of PrivateKeyToTronAddress that reads the key as a           *)
(* little-endian number.                                                   *)
PrivateKeyToTronAddressLittleEndian(privateKey) ==
    EncodingOf(privateKey,
               PublicKeyPoint([i \in 1..Len(privateKey) |->
                                  privateKey[Len(privateKey) + 1 - i]]))

(* A variant of PrivateKeyToTronAddress that reads the key with            *)
(* privateKey[:32], which panics on a slice of a smaller capacity.         *)
PrivateKeyToTronAddressFixedLength(privateKey) ==
    IF Len(privateKey) < KeyLen
    THEN [NoEncoding EXCEPT !.called = TRUE, !.privateKey = privateKey,
                            !.panic = TRUE, !.after = privateKey]
    ELSE EncodingOf(privateKey, PublicKeyPoint(SubSeq(privateKey, 1, KeyLen)))

PrivateKeyToTronAddress(privateKey) ==
    EncodingOf(privateKey, PublicKeyPoint(privateKey))

----------------------------------------------------------------------------
(* DeriveTronAddressFromMnemonic, main.go:34-67.                           *)

\* what is recorded of one call parent.NewChildKey(childIdx) that returned r
CallRecord(parent, childIdx, r) ==
    [childIdx |-> childIdx, parent |-> parent, curve |-> Secp256k1.name,
     hardened |-> IsHardened(childIdx),
     data |-> IntermediaryData(parent, childIdx),
     key |-> r.key, err |-> r.err, panic |-> FALSE]

(* One executed call parent.NewChildKey(childIdx) of the path walk.  A     *)
(* call on a nil parent dereferences the nil pointer and panics.           *)
ChildCall(parent, childIdx) ==
    IF parent.nil
    THEN [childIdx |-> childIdx, parent |-> parent, curve |-> Secp256k1.name,
          hardened |-> FALSE, data |-> <<>>, key |-> NilKey, err |-> NoError,
          panic |-> TRUE]
    ELSE CallRecord(parent, childIdx, NewChildKey(parent, childIdx))

(* A variant of DerivationPath that walks the account before the coin    *)
(* type: m/44'/0'/195'/0/index.                                            *)
DerivationPathSwapped(idx) ==
    << U32Add(FirstHardenedChild, 44), U32Add(FirstHardenedChild, 0),
       U32Add(FirstHardenedChild, 195), U32(0, 0), idx >>

(* A variant of DerivationPath whose last step does not use the index:     *)
(* m/44'/195'/0'/0/0.                                                      *)
DerivationPathFixed(idx) ==
    << U32Add(FirstHardenedChild, 44), U32Add(FirstHardenedChild, 195),
       U32Add(FirstHardenedChild, 0), U32(0, 0), U32(0, 0) >>

\* main.go:47-52: the child numbers in the order of the statements
DerivationPath(idx) ==
    << U32Add(FirstHardenedChild, 44), U32Add(FirstHardenedChild, 195),
       U32Add(FirstHardenedChild, 0), U32(0, 0), idx >>

(* main.go:47-52: the statements run in order, each on the key the one     *)
(* before returned, whatever its error; the walk ends with the statement   *)
(* that panics.                                                            *)
RECURSIVE WalkPath(_, _)
RECURSIVE WalkAfter(_, _)
WalkPath(parent, path) ==
    IF path = <<>> THEN <<>>
    ELSE WalkAfter(ChildCall(parent, path[1]), Tail(path))

WalkAfter(call, rest) ==
    IF call.panic THEN <<call>> ELSE <<call>> \o WalkPath(call.key, rest)

MasterKeyLog == "failed to generate master key"

(* What a caller observes of one call (address, privateKeyHex, err, or a   *)
(* panic, and the log records written), with the arguments of the call and *)
(* the values of its locals.                                               *)
Outcome(mnemonic, idx, address, privateKeyHex, err, panic, log, master, calls, enc) ==
    [op |-> "DeriveTronAddressFromMnemonic", mnemonic |-> mnemonic, index |-> idx,
     privateKey |-> <<>>, address |-> address, privateKeyHex |-> privateKeyHex,
     err |-> err, panic |-> panic, log |-> log, master |-> master,
     calls |-> calls, enc |-> enc]

(* A variant of DeriveEncoded that renders the key as the minimal bytes of  *)
(* its number, without the leading zero bytes.                             *)
DeriveEncodedMinimal(mnemonic, idx, master, calls, walletKey, enc) ==
    IF enc.err # NoError
    THEN Outcome(mnemonic, idx, <<>>, <<>>, enc.err, FALSE, <<>>, master, calls, enc)
    ELSE Outcome(mnemonic, idx, enc.address,
                 EncodeToString(Bytes(SetBytes(walletKey.Key))),
                 NoError, FALSE, <<>>, master, calls, enc)

\* main.go:56-65, with walletKey the key of the last call and enc its encoding
DeriveEncoded(mnemonic, idx, master, calls, walletKey, enc) ==
    IF enc.err # NoError
    THEN Outcome(mnemonic, idx, <<>>, <<>>, enc.err, FALSE, <<>>, master, calls, enc)
    ELSE Outcome(mnemonic, idx, enc.address, EncodeToString(walletKey.Key),
                 NoError, FALSE, <<>>, master, calls, enc)

(* A variant of DeriveWalked that, when the last NewChildKey call fails,   *)
(* returns the hex of the parent key together with the error.              *)
DeriveWalkedPartial(mnemonic, idx, master, calls) ==
    IF calls[Len(calls)].panic
    THEN Outcome(mnemonic, idx, <<>>, <<>>, NoError, TRUE, <<>>,
                 master, calls, NoEncoding)
    ELSE IF calls[Len(calls)].err # NoError
    THEN Outcome(mnemonic, idx, <<>>,
                 EncodeToString(calls[Len(calls)].parent.Key),
                 calls[Len(calls)].err, FALSE, <<>>, master, calls, NoEncoding)
    ELSE DeriveEncoded(mnemonic, idx, master, calls, calls[Len(calls)].key,
                       PrivateKeyToTronAddress(calls[Len(calls)].key.Key))

\* main.go:47-65, with calls the executed NewChildKey calls
DeriveWalked(mnemonic, idx, master, calls) ==
    IF calls[Len(calls)].panic
    THEN Outcome(mnemonic, idx, <<>>, <<>>, NoError, TRUE, <<>>,
                 master, calls, NoEncoding)
    ELSE IF calls[Len(calls)].err # NoError
    THEN Outcome(mnemonic, idx, <<>>, <<>>, calls[Len(calls)].err, FALSE, <<>>,
                 master, calls, NoEncoding)
    ELSE DeriveEncoded(mnemonic, idx, master, calls, calls[Len(calls)].key,
                       PrivateKeyToTronAddress(calls[Len(calls)].key.Key))

\* main.go:39-65, with m the result of bip32.NewMasterKey
DeriveFromMaster(mnemonic, idx, m) ==
    IF m.err # NoError
    THEN Outcome(mnemonic, idx, <<>>, <<>>, m.err, FALSE, <<MasterKeyLog>>,
                 m.key, <<>>, NoEncoding)
    ELSE DeriveWalked(mnemonic, idx, m.key, WalkPath(m.key, DerivationPath(idx)))

(* A variant of DeriveTronAddressFromMnemonic that checks the mnemonic as  *)
(* bip39.NewSeedWithErrorChecking does and rejects one that is not twelve  *)
(* words.                                                                  *)
DeriveTronAddressFromMnemonicChecked(mnemonic, idx) ==
    IF Cardinality({k \in 1..Len(mnemonic) : mnemonic[k] = 32}) # 11
    THEN Outcome(mnemonic, idx, <<>>, <<>>, "Invalid mnenomic", FALSE, <<>>,
                 NilKey, <<>>, NoEncoding)
    ELSE DeriveFromMaster(mnemonic, idx, NewMasterKey(NewSeed(mnemonic, <<>>)))

(* A variant of DeriveTronAddressFromMnemonic without the parameter that   *)
(* shadows the package-level variable: the seed is made of mnemonicSecret  *)
(* of main.go:19.                                                          *)
DeriveTronAddressFromPackageSecret(mnemonic, idx) ==
    DeriveFromMaster(mnemonic, idx, NewMasterKey(NewSeed(mnemonicSecret, <<>>)))

\* main.go:34-67
DeriveTronAddressFromMnemonic(mnemonic, idx) ==
    DeriveFromMaster(mnemonic, idx, NewMasterKey(NewSeed(mnemonic, <<>>)))

\* a direct call of PrivateKeyToTronAddress that returned enc
AddressOutcomeOf(privateKey, enc) ==
    [op |-> "PrivateKeyToTronAddress", mnemonic |-> <<>>, index |-> U32(0, 0),
     privateKey |-> privateKey, address |-> enc.address,
     privateKeyHex |-> <<>>, err |-> enc.err, panic |-> enc.panic,
     log |-> <<>>, master |-> NilKey, calls |-> <<>>, enc |-> enc]

AddressOutcome(privateKey) ==
    AddressOutcomeOf(privateKey, PrivateKeyToTronAddress(privateKey))

NoCall ==
    [op |-> "none", mnemonic |-> <<>>, index |-> U32(0, 0), privateKey |-> <<>>,
     address |-> <<>>, privateKeyHex |-> <<>>, err |-> NoError, panic |-> FALSE,
     log |-> <<>>, master |-> NilKey, calls |-> <<>>, enc |-> NoEncoding]

----------------------------------------------------------------------------
(* packages/shared/config/config.go: Config and LoadConfig.  A YAML file   *)
(* is a sequence of lines "key: text" with an indentation; a key without   *)
(* text opens a mapping whose entries are the following lines indented by  *)
(* two.                                                                    *)

\* config.go:10-23, the zero value
ZeroConfig ==
    [Debug |-> FALSE, AppPort |-> 0,
     DatabaseConfig |-> [User |-> "", Host |-> "", Port |-> 0, Database |-> "",
                         MaxConnections |-> 0]]

Line(indent, key, text) == [indent |-> indent, key |-> key, text |-> text]

\* the decimal numbers written in the files
IntValue ==
    ("0" :> 0) @@ ("5" :> 5) @@ ("10" :> 10) @@ ("20" :> 20) @@ ("5000" :> 5000)
    @@ ("5432" :> 5432) @@ ("8080" :> 8080) @@ ("9090" :> 9090)

\* yaml.v3 resolve: the tag of a plain scalar
Resolve(text) ==
    IF text = "" THEN "null"
    ELSE IF text \in {"true", "false"} THEN "bool"
    ELSE IF text \in DOMAIN IntValue THEN "int"
    ELSE "str"

(* yaml.v3 parser: an indented line must continue a mapping, that is,      *)
(* follow a line of the same indentation or a key without text one level   *)
(* up.                                                                     *)
SyntaxOk(doc) ==
    \A i \in 1..Len(doc) :
        \/ doc[i].indent = 0
        \/ /\ doc[i].indent = 2
           /\ i > 1
           /\ \/ doc[i - 1].indent = 2
              \/ doc[i - 1].indent = 0 /\ doc[i - 1].text = ""

\* the key of the mapping that line i is an entry of; "" at the top level
ParentOf(doc, i) ==
    IF doc[i].indent = 0 THEN ""
    ELSE doc[CHOOSE j \in 1..(i - 1) :
                 /\ doc[j].indent = 0
                 /\ \A k \in (j + 1)..(i - 1) : doc[k].indent # 0].key

\* the kind of the field that a key of the mapping parent is decoded into
FieldKind(parent, key) ==
    IF parent = "" THEN
        CASE key = "debug" -> "bool"
          [] key = "appPort" -> "int"
          [] key = "database" -> "struct"
          [] OTHER -> "none"
    ELSE IF parent = "database" THEN
        CASE key \in {"user", "host", "database"} -> "string"
          [] key \in {"port", "maxConnections"} -> "int"
          [] OTHER -> "none"
    ELSE "none"

(* yaml.v3 decoder: whether the scalar text can be stored in a field of    *)
(* the kind; a null leaves the field alone, every scalar fits a string, a  *)
(* struct takes a mapping only.                                            *)
Fits(kind, text) ==
    \/ kind = "none"
    \/ Resolve(text) = "null"
    \/ kind = "string"
    \/ kind = Resolve(text)

\* the field of c that the key names, set from the text
SetField(c, parent, key, text) ==
    IF parent = "" /\ key = "debug" THEN [c EXCEPT !.Debug = (text = "true")]
    ELSE IF parent = "" /\ key = "appPort"
    THEN [c EXCEPT !.AppPort = IntValue[text]]
    ELSE IF key = "user" THEN [c EXCEPT !.DatabaseConfig.User = text]
    ELSE IF key = "host" THEN [c EXCEPT !.DatabaseConfig.Host = text]
    ELSE IF key = "database" THEN [c EXCEPT !.DatabaseConfig.Database = text]
    ELSE IF key = "port" THEN [c EXCEPT !.DatabaseConfig.Port = IntValue[text]]
    ELSE [c EXCEPT !.DatabaseConfig.MaxConnections = IntValue[text]]

\* one line decoded into c: a field that is not named or not fitted stays
DecodeLine(c, parent, line) ==
    IF \/ FieldKind(parent, line.key) \in {"none", "struct"}
       \/ Resolve(line.text) = "null"
       \/ ~Fits(FieldKind(parent, line.key), line.text)
    THEN c
    ELSE SetField(c, parent, line.key, line.text)

YamlSyntaxError == "yaml: did not find expected key"
YamlTypeError == "yaml: unmarshal errors"

(* The lines from i on decoded into c in order; the decoder goes on after  *)
(* a value that does not fit and reports the unmarshal errors at the end.  *)
RECURSIVE DecodeFrom(_, _, _, _)
DecodeFrom(doc, i, c, err) ==
    IF i > Len(doc) THEN [cfg |-> c, err |-> err]
    ELSE DecodeFrom(doc, i + 1, DecodeLine(c, ParentOf(doc, i), doc[i]),
                    IF Fits(FieldKind(ParentOf(doc, i), doc[i].key), doc[i].text)
                    THEN err ELSE YamlTypeError)

\* yaml.Unmarshal(f, c)
Unmarshal(doc, c) ==
    IF ~SyntaxOk(doc) THEN [cfg |-> c, err |-> YamlSyntaxError]
    ELSE DecodeFrom(doc, 1, c, NoError)

\* the files of the tests
FirstYAML ==
    << Line(0, "debug", "true"), Line(0, "appPort", "8080"),
       Line(0, "database", ""), Line(2, "user", "firstuser"),
       Line(2, "password", "firstpass"), Line(2, "host", "localhost"),
       Line(2, "database", "firstdb"), Line(2, "maxConnections", "10") >>

SecondYAML ==
    << Line(0, "debug", "false"), Line(0, "appPort", "9090"),
       Line(0, "database", ""), Line(2, "user", "seconduser"),
       Line(2, "password", "secondpass"), Line(2, "host", "remotehost"),
       Line(2, "database", "seconddb"), Line(2, "maxConnections", "20") >>

IPv6YAML ==
    << Line(0, "debug", "true"), Line(0, "appPort", "8080"),
       Line(0, "database", ""), Line(2, "user", "user"),
       Line(2, "password", "pass"), Line(2, "host", "::1"),
       Line(2, "database", "db"), Line(2, "maxConnections", "5") >>

PartialYAML == << Line(0, "debug", "true"), Line(0, "appPort", "5000") >>

InvalidYAML ==
    << Line(0, "debug", "true"), Line(0, "appPort", "not_a_number"),
       Line(0, "database", ""), Line(2, "user", "user") >>

MalformedYAML ==
    << Line(0, "debug", "true"), Line(2, "appPort", "8080"),
       Line(1, "database", ""), Line(0, "user", "test") >>

File(content, readable) ==
    [kind |-> "file", content |-> content, readable |-> readable]

\* what the paths of the tests name
FileSystem ==
    [path \in {"/nonexistent/path/config.yaml", "tmpDir", "noperm.yaml",
               "first.yaml", "second.yaml", "ipv6.yaml", "partial.yaml", "empty.yaml",
               "invalid.yaml", "malformed.yaml"} |->
        CASE path = "/nonexistent/path/config.yaml" ->
                 [kind |-> "missing", content |-> <<>>, readable |-> FALSE]
          [] path = "tmpDir" ->
                 [kind |-> "directory", content |-> <<>>, readable |-> TRUE]
          [] path = "noperm.yaml" -> File(<<Line(0, "debug", "true")>>, FALSE)
          [] path = "first.yaml" -> File(FirstYAML, TRUE)
          [] path = "second.yaml" -> File(SecondYAML, TRUE)
          [] path = "ipv6.yaml" -> File(IPv6YAML, TRUE)
          [] path = "partial.yaml" -> File(PartialYAML, TRUE)
          [] path = "empty.yaml" -> File(<<>>, TRUE)
          [] path = "invalid.yaml" -> File(InvalidYAML, TRUE)
          [] path = "malformed.yaml" -> File(MalformedYAML, TRUE)]

Paths == DOMAIN FileSystem

\* os.ReadFile(path)
ReadFile(path) ==
    CASE FileSystem[path].kind = "missing" ->
             [f |-> <<>>, err |-> "no such file or directory"]
      [] FileSystem[path].kind = "directory" ->
             [f |-> <<>>, err |-> "is a directory"]
      [] ~FileSystem[path].readable ->
             [f |-> <<>>, err |-> "permission denied"]
      [] OTHER -> [f |-> FileSystem[path].content, err |-> NoError]

\* fmt.Errorf(format + " %w", err): the message and the wrapped error
Errorf(message, err) == <<message, err>>

\* strings.Contains(err.Error(), part) for a part that is a whole message
Contains(err, part) ==
    err # NoError /\ \E k \in 1..Len(err) : err[k] = part

\* what a call of LoadConfig did: the receiver after it, error, Unmarshal called
LoadResult(c, err, parsed) == [cfg |-> c, err |-> err, parsed |-> parsed]

\* config.go:31-35, with u the result of yaml.Unmarshal(f, c)
LoadParsed(u) ==
    IF u.err # NoError
    THEN LoadResult(u.cfg, Errorf("failed to parse config", u.err), TRUE)
    ELSE LoadResult(u.cfg, NoError, TRUE)

(* A variant of LoadRead that drops the error of yaml.Unmarshal.           *)
LoadReadUnchecked(c, r) ==
    IF r.err # NoError
    THEN LoadResult(c, Errorf("failed to read config", r.err), FALSE)
    ELSE LoadResult(Unmarshal(r.f, c).cfg, NoError, TRUE)

(* A variant of LoadRead that decodes into a copy of the receiver and      *)
(* assigns the copy to the receiver only when the decoding succeeded.      *)
LoadReadAtomic(c, r) ==
    IF r.err # NoError
    THEN LoadResult(c, Errorf("failed to read config", r.err), FALSE)
    ELSE IF Unmarshal(r.f, c).err # NoError
    THEN LoadResult(c, Errorf("failed to parse config", Unmarshal(r.f, c).err),
                    TRUE)
    ELSE LoadParsed(Unmarshal(r.f, c))

(* A variant of LoadRead that decodes the file into a zero Config and      *)
(* assigns the result to the receiver.                                     *)
LoadReadFresh(c, r) ==
    IF r.err # NoError
    THEN LoadResult(c, Errorf("failed to read config", r.err), FALSE)
    ELSE LoadParsed(Unmarshal(r.f, ZeroConfig))

\* config.go:26-35, with r the result of os.ReadFile(path)
LoadRead(c, r) ==
    IF r.err # NoError
    THEN LoadResult(c, Errorf("failed to read config", r.err), FALSE)
    ELSE LoadParsed(Unmarshal(r.f, c))

\* config.go:25-36: c.LoadConfig(path)
LoadConfig(c, path) == LoadRead(c, ReadFile(path))

NoLoad ==
    [op |-> "none", path |-> "", before |-> ZeroConfig, err |-> NoError,
     parsed |-> FALSE]

----------------------------------------------------------------------------
(* packages/shared/db/cocroach.go: DbConnect, with the calls it makes to   *)
(* pgxpool (ParseConfig, NewWithConfig, Ping).  Each library call returns  *)
(* its result and its error; trace is the sequence of the library calls a  *)
(* DbConnect call made, each with its error.                               *)

\* cocroach.go:14-24: the connection URL
DbURL(dbCfg, password) ==
    [Scheme |-> "postgres", User |-> dbCfg.User, Password |-> password,
     Host |-> dbCfg.Host, Port |-> dbCfg.Port, Path |-> dbCfg.Database,
     RawQuery |-> "sslmode=verify-full"]

\* the largest TCP port
MaxPort == 65535

\* pgxpool.ParseConfig(dsn): the port must be in 1..65535
ParseConfig(dsn) ==
    IF dsn.Port < 1 \/ dsn.Port > MaxPort
    THEN [poolCfg |-> [Host |-> "", Port |-> 0, MaxConns |-> 0, MinConns |-> 0],
          err |-> "invalid port"]
    ELSE [poolCfg |-> [Host |-> dsn.Host, Port |-> dsn.Port, MaxConns |-> 4,
                       MinConns |-> 0],
          err |-> NoError]

\* pgxpool.NewWithConfig(ctx, poolCfg): no pool of a size below one
NewWithConfig(ctx, poolCfg) ==
    IF poolCfg.MaxConns < 1
    THEN [created |-> FALSE, poolCfg |-> poolCfg, err |-> "MaxSize must be >= 1"]
    ELSE [created |-> TRUE, poolCfg |-> poolCfg, err |-> NoError]

\* dbpool.Ping(ctx): a connection is acquired and pinged
Ping(ctx, poolCfg, servers) ==
    IF ctx = "cancelled" THEN "context canceled"
    ELSE IF poolCfg.Host \notin servers THEN "failed to connect"
    ELSE NoError

TraceEntry(call, err) == [call |-> call, err |-> err]

\* what a call of DbConnect did: pool returned, error, pool created, calls made
DbResult(returned, err, created, trace) ==
    [returned |-> returned, err |-> err, created |-> created, trace |-> trace]

\* cocroach.go:41-45, with err the result of dbpool.Ping(ctx)
DbPinged(trace, err) ==
    IF err # NoError
    THEN DbResult(FALSE, Errorf("database connection failed", err), TRUE,
                  Append(trace, TraceEntry("Ping", err)))
    ELSE DbResult(TRUE, NoError, TRUE, Append(trace, TraceEntry("Ping", err)))

(* A variant of DbCreated that hands out the pool without a ping.          *)
DbCreatedUnpinged(ctx, servers, trace, p) ==
    IF p.err # NoError
    THEN DbResult(FALSE, Errorf("failed to create pgx pool", p.err), FALSE,
                  Append(trace, TraceEntry("NewWithConfig", p.err)))
    ELSE DbResult(TRUE, NoError, TRUE,
                  Append(trace, TraceEntry("NewWithConfig", p.err)))

\* cocroach.go:37-45, with p the result of pgxpool.NewWithConfig
DbCreated(ctx, servers, trace, p) ==
    IF p.err # NoError
    THEN DbResult(FALSE, Errorf("failed to create pgx pool", p.err), FALSE,
                  Append(trace, TraceEntry("NewWithConfig", p.err)))
    ELSE DbPinged(Append(trace, TraceEntry("NewWithConfig", p.err)),
                  Ping(ctx, p.poolCfg, servers))

\* cocroach.go:26-45, with pc the result of pgxpool.ParseConfig(dsn)
DbParsed(ctx, dbCfg, servers, pc) ==
    IF pc.err # NoError
    THEN DbResult(FALSE, Errorf("failed to parse pgx pool config", pc.err), FALSE,
                  <<TraceEntry("ParseConfig", pc.err)>>)
    ELSE DbCreated(ctx, servers, <<TraceEntry("ParseConfig", pc.err)>>,
                   NewWithConfig(ctx, [pc.poolCfg EXCEPT
                                          !.MaxConns = dbCfg.MaxConnections,
                                          !.MinConns = 2]))

(* cocroach.go:13-47: DbConnect(ctx, cfg, cocroachDBPass); servers are the *)
(* hosts where a database answers.                                         *)
DbConnect(ctx, dbCfg, password, servers) ==
    DbParsed(ctx, dbCfg, servers, ParseConfig(DbURL(dbCfg, password)))

NilPool == 0

NoConnect ==
    [op |-> "none", ctx |-> "background", cfg |-> ZeroConfig.DatabaseConfig,
     password |-> "", pool |-> NilPool, err |-> NoError, trace |-> <<>>]

----------------------------------------------------------------------------
(* packages/shared/db/migrations: the tables clients and accounts and the  *)
(* sqlc statements on them.  A table is the set of its rows; a UUID is a   *)
(* positive number and NilUUID the all-zero UUID.  A statement returns its *)
(* rows and its error: an :exec statement no rows, a :one statement the    *)
(* first row or the error of an empty result, a :many statement all rows.  *)

NilUUID == 0

\* SQL NULL; a BOOL column holds "TRUE", "FALSE" or Null
Null == "NULL"

\* 002_accounts.sql:7-13
AccountsTable == {"id", "client_id", "name", "created_at"}

(* The accounts table migrations_test.go requires of 002_accounts.sql has  *)
(* the column address_index INT DEFAULT 0 as well.                         *)
AccountsTableIndexed == AccountsTable \cup {"address_index"}

\* ADD COLUMN address_index INT DEFAULT 0, on one row
WithAddressIndex(row) ==
    [c \in AccountsTableIndexed |->
        IF c = "address_index" THEN 0 ELSE row[c]]

ErrNoRows == "no rows in result set"
ErrUniqueViolation == "duplicate key value violates unique constraint"
ErrForeignKeyViolation == "violates foreign key constraint"
ErrUndefinedColumn == "column does not exist"

QueryResult(rows, err) == [rows |-> rows, err |-> err]

\* the columns cols of the row
Project(row, cols) == [c \in cols |-> row[c]]

\* gen_random_uuid(): the next identifier that no row of the table has
NextUUID(table) == Cardinality(table) + 1

\* 001_clients.sql:5-11 and part_010:1-2: CreateClient(name, api_key)
ClientRow(table, name, apiKey) ==
    [id |-> NextUUID(table), name |-> name, api_key |-> apiKey,
     is_active |-> "TRUE", created_at |-> "now"]

\* the table clients after CreateClient, and the result of the statement
CreateClient(table, name, apiKey) ==
    IF \E c \in table : c.api_key = apiKey
    THEN [table |-> table, result |-> QueryResult({}, ErrUniqueViolation)]
    ELSE [table |-> table \cup {ClientRow(table, name, apiKey)},
          result |-> QueryResult({}, NoError)]

\* a :one statement: the row found, or the error of an empty result
One(rows) ==
    IF rows = {} THEN QueryResult({}, ErrNoRows)
    ELSE QueryResult({CHOOSE r \in rows : TRUE}, NoError)

(* A variant of GetClientByAPIKey without the condition on is_active.      *)
GetClientByAPIKeyAny(table, apiKey) ==
    One({ c \in table : c.api_key = apiKey })

\* part_010:4-8
GetClientByAPIKey(table, apiKey) ==
    One({ c \in table : c.api_key = apiKey /\ c.is_active = "TRUE" })

\* part_010:10-14
GetClientByID(table, id) ==
    One({ c \in table : c.id = id })

\* 002_accounts.sql:7-13: the row CreateAccount inserts into a table of the columns
AccountRow(table, columns, clientID, name) ==
    Project([id |-> NextUUID(table), client_id |-> clientID, name |-> name,
             created_at |-> "now", address_index |-> 0], columns)

\* 002_accounts.sql:15-16, with the foreign key of line 12
CreateAccount(table, columns, clientRows, clientID, name) ==
    IF ~\E c \in clientRows : c.id = clientID
    THEN [table |-> table, result |-> QueryResult({}, ErrForeignKeyViolation)]
    ELSE [table |-> table \cup {AccountRow(table, columns, clientID, name)},
          result |-> QueryResult({}, NoError)]

(* A variant of GetAccountsByClientID without the WHERE clause.            *)
GetAccountsOfAllClients(table, columns, clientID) ==
    QueryResult({ Project(a, {"id", "client_id", "name", "created_at"}) :
                      a \in table }, NoError)

\* 002_accounts.sql:18-21
GetAccountsByClientID(table, columns, clientID) ==
    QueryResult({ Project(a, {"id", "client_id", "name", "created_at"}) :
                      a \in { r \in table : r.client_id = clientID } }, NoError)

\* 002_accounts.sql:23-26: the select list names address_index
GetAccountByIDAndClientID(table, columns, id, clientID) ==
    IF "address_index" \notin columns
    THEN QueryResult({}, ErrUndefinedColumn)
    ELSE One({ Project(a, {"id", "client_id", "name", "address_index",
                           "created_at"}) :
                   a \in { r \in table : r.id = id /\ r.client_id = clientID } })

NoQuery ==
    [name |-> "none", args |-> <<>>, rows |-> {}, err |-> NoError]

----------------------------------------------------------------------------
(* Inputs.                                                                 *)

\* main.go:19
DefaultMnemonic ==
    <<102, 108, 97, 115, 104, 32, 99, 111, 117, 112, 108, 101, 32, 104, 101, 97,
      114, 116, 32, 115, 99, 114, 105, 112, 116, 32, 114, 97, 109, 112, 32, 97,
      112, 114, 105, 108, 32, 97, 118, 101, 114, 97, 103, 101, 32, 99, 97, 117,
      116, 105, 111, 110, 32, 112, 108, 117, 110, 103, 101, 32, 97, 108, 116,
      101, 114, 32, 101, 108, 105, 116, 101, 32, 97, 117, 116, 104, 111, 114>>

(* The mnemonics tried: the program's own, the empty string, sixteen      *)
(* spaces, the single letter "k", and strings over "a", "b", " " picked so *)
(* that every way a call can end occurs: "a" fails at the master key;      *)
(* "b  a baa a", "baba aaa a ", "a aa bbb " and "   baa  " fail at the     *)
(* 1st, 2nd, 3rd and 4th child; "aa   a " fails at the last child for the  *)
(* index 2^31; "aabab ba  " derives at index 0 the key 1523, the order of  *)
(* the address curve.  The program's own mnemonic derives at index 2^31    *)
(* the key 212 and the empty string at index 0 the key 116, both with a    *)
(* leading zero byte.                                                      *)
Mnemonics ==
    { DefaultMnemonic, <<>>,
      Repeat(32, 16), <<107>>,
      <<97>>,
      <<98, 32, 32, 97, 32, 98, 97, 97, 32, 97>>,
      <<98, 97, 98, 97, 32, 97, 97, 97, 32, 97, 32>>,
      <<97, 32, 97, 97, 32, 98, 98, 98, 32>>,
      <<32, 32, 32, 98, 97, 97, 32, 32>>,
      <<97, 97, 32, 32, 32, 97, 32>>,
      <<97, 97, 98, 97, 98, 32, 98, 97, 32, 32>> }

\* 0, 2^31 - 1, 2^31 and 2^32 - 1
Indices ==
    { U32(0, 0), U32(32767, 65535), U32(32768, 0), U32(65535, 65535) }

\* how many zero bytes are put in front of a full-length key
MaxPad == 1

\* scalar values around zero and the order of the address curve, and the
\* largest one; 255 * G has the x coordinate 0 on the address curve
KeyValues == {0, 1, 255, 256, P256.n - 1, P256.n, P256.n + 1, 65535}

\* keys shorter than the key length
ShortKeys == { <<>>, <<0>>, <<1>>, <<255>> }

PrivateKeys ==
    ShortKeys
    \cup { Zeros(z) \o PadToKeyLen(Bytes(v)) : z \in 0..MaxPad, v \in KeyValues }
    \cup { Repeat(255, KeyLen + 1) }

\* every call of the two functions over the inputs
DeriveOutcomes ==
    { DeriveTronAddressFromMnemonic(m, i) : m \in Mnemonics, i \in Indices }

AddressOutcomes == { AddressOutcome(k) : k \in PrivateKeys }

----------------------------------------------------------------------------
(* The program as a state machine: callers call the two functions in any   *)
(* order, any number of times.  last is the call that ended last and prev  *)
(* is any one earlier call.                                                *)

\* how many goroutines call DeriveTronAddressFromMnemonic concurrently
NumGoroutines == 2

Goroutines == 1..NumGoroutines

\* a goroutine that is not in a call
Idle ==
    [pc |-> "idle", mnemonic |-> <<>>, index |-> U32(0, 0), seed |-> <<>>,
     masterKey |-> NilKey, calls |-> <<>>, result |-> NoCall,
     overlapped |-> FALSE]

Init ==
    /\ mnemonicSecret = DefaultMnemonic
    /\ index = U32(0, 0)
    /\ last = NoCall
    /\ prev = NoCall
    /\ goroutines = [w \in Goroutines |-> Idle]
    /\ config = ZeroConfig
    /\ loaded = NoLoad
    /\ db = NoConnect
    /\ pools = {}
    /\ clients = {}
    /\ accounts = {}
    /\ accountsColumns = AccountsTable
    /\ query = NoQuery

(* A variant of CallDerive that keeps the result of the last derivation   *)
(* and returns it again for the same mnemonic, whatever the index.         *)
CallDeriveCached ==
    /\ \E o \in DeriveOutcomes :
          last' = IF last.op = o.op /\ last.mnemonic = o.mnemonic
                  THEN [last EXCEPT !.index = o.index]
                  ELSE o
    /\ prev' \in {prev, last}
    /\ UNCHANGED <<mnemonicSecret, index, goVars, configVars, dbVars, sqlVars>>

\* main.go:24 and the tests: DeriveTronAddressFromMnemonic(m, i)
CallDerive ==
    /\ \E o \in DeriveOutcomes : last' = o
    /\ prev' \in {prev, last}
    /\ UNCHANGED <<mnemonicSecret, index, goVars, configVars, dbVars, sqlVars>>

\* the tests: PrivateKeyToTronAddress(k)
CallPrivateKeyToTronAddress ==
    /\ \E o \in AddressOutcomes : last' = o
    /\ prev' \in {prev, last}
    /\ UNCHANGED <<mnemonicSecret, index, goVars, configVars, dbVars, sqlVars>>

(* TestIntegration_MnemonicToAddress / TestIntegration_FullFlow: the hex   *)
(* private key of an earlier successful derivation is decoded and passed   *)
(* to PrivateKeyToTronAddress.                                             *)
CallRoundTrip ==
    /\ \E src \in {last, prev} :
          /\ src.op = "DeriveTronAddressFromMnemonic"
          /\ src.err = NoError /\ ~src.panic
          /\ LET dec == DecodeString(src.privateKeyHex)
             IN  /\ dec.err = NoError
                 /\ last' = AddressOutcome(dec.bytes)
          /\ prev' = src
    /\ UNCHANGED <<mnemonicSecret, index, goVars, configVars, dbVars, sqlVars>>

Next == CallDerive \/ CallPrivateKeyToTronAddress \/ CallRoundTrip

Spec == Init /\ [][Next]_vars

----------------------------------------------------------------------------
(* Concurrent callers (TestDeriveTronAddressFromMnemonic_MemorySafety,     *)
(* TestConcurrentAddressGeneration): every goroutine runs the statements   *)
(* of DeriveTronAddressFromMnemonic one library call at a time, on its own *)
(* parameters and locals; the steps of different goroutines interleave in  *)
(* any order.  pc is the statement a goroutine executes next: "seed"       *)
(* (main.go:36), "master" (39-43), "child" (the next of the five           *)
(* NewChildKey calls, 47-55), "encode" (57-66), "done" (returned or        *)
(* panicked).                                                              *)

(* The calls made concurrently: the program's own mnemonic with the        *)
(* indices 0 and 2^31, and a mnemonic whose master key is invalid.  None   *)
(* of them panics when it runs alone.                                      *)
GoInputs ==
    { <<DefaultMnemonic, U32(0, 0)>>, <<DefaultMnemonic, U32(32768, 0)>>,
      <<<<97>>, U32(0, 0)>> }

InFlight(g) == g.pc \notin {"idle", "done"}

\* goroutine w takes a step while another goroutine is inside a call
Overlaps(w) == \E v \in Goroutines \ {w} : InFlight(goroutines[v])

\* goroutine w becomes g
GoStep(w, g) ==
    /\ goroutines' = [goroutines EXCEPT
                         ![w] = [g EXCEPT !.overlapped = @ \/ Overlaps(w)]]
    /\ UNCHANGED <<mnemonicSecret, index, last, prev, configVars, dbVars, sqlVars>>

\* a goroutine returns (or panics) with the outcome o
GoReturn(g, o) == [g EXCEPT !.pc = "done", !.result = o]

\* the go statement of the tests: the call starts with its parameters
GoCall(w) ==
    /\ ~InFlight(goroutines[w])
    /\ \E inp \in GoInputs :
          GoStep(w, [Idle EXCEPT !.pc = "seed", !.mnemonic = inp[1],
                                 !.index = inp[2]])

\* main.go:36
GoNewSeed(w) ==
    /\ goroutines[w].pc = "seed"
    /\ GoStep(w, [goroutines[w] EXCEPT
                     !.pc = "master",
                     !.seed = NewSeed(goroutines[w].mnemonic, <<>>)])

\* main.go:39-43, with m the result of bip32.NewMasterKey
GoAfterMasterKey(g, m) ==
    IF m.err # NoError
    THEN GoReturn(g, DeriveFromMaster(g.mnemonic, g.index, m))
    ELSE [g EXCEPT !.pc = "child", !.masterKey = m.key]

GoNewMasterKey(w) ==
    /\ goroutines[w].pc = "master"
    /\ GoStep(w, GoAfterMasterKey(goroutines[w],
                                  NewMasterKey(goroutines[w].seed)))

(* A variant of ParentKey in which the key derived last is kept in one    *)
(* variable of the package: a goroutine continues from the key of another  *)
(* goroutine that is further down the path.                                *)
ParentKeyShared(w) ==
    IF \E v \in Goroutines \ {w} :
          /\ goroutines[v].pc = "child"
          /\ Len(goroutines[v].calls) > Len(goroutines[w].calls)
    THEN LET v == CHOOSE v \in Goroutines \ {w} :
                     /\ goroutines[v].pc = "child"
                     /\ Len(goroutines[v].calls) > Len(goroutines[w].calls)
         IN  goroutines[v].calls[Len(goroutines[v].calls)].key
    ELSE IF goroutines[w].calls = <<>> THEN goroutines[w].masterKey
    ELSE goroutines[w].calls[Len(goroutines[w].calls)].key

\* the receiver of the next NewChildKey call: the local assigned last
ParentKey(w) ==
    IF goroutines[w].calls = <<>> THEN goroutines[w].masterKey
    ELSE goroutines[w].calls[Len(goroutines[w].calls)].key

(* main.go:47-55 with calls the NewChildKey calls executed so far: a call  *)
(* on a nil key panics, the error of the fifth call is returned, the       *)
(* errors of the others are dropped.                                       *)
GoAfterChildKey(g, calls) ==
    IF calls[Len(calls)].panic
       \/ (Len(calls) = Len(DerivationPath(g.index))
           /\ calls[Len(calls)].err # NoError)
    THEN GoReturn([g EXCEPT !.calls = calls],
                  DeriveWalked(g.mnemonic, g.index, g.masterKey, calls))
    ELSE [g EXCEPT !.calls = calls,
                   !.pc = IF Len(calls) = Len(DerivationPath(g.index))
                          THEN "encode" ELSE "child"]

GoNewChildKey(w) ==
    /\ goroutines[w].pc = "child"
    /\ GoStep(w, GoAfterChildKey(goroutines[w],
            Append(goroutines[w].calls,
                   ChildCall(ParentKey(w),
                             DerivationPath(goroutines[w].index)
                                 [Len(goroutines[w].calls) + 1]))))

\* main.go:57-66
GoEncode(w) ==
    /\ goroutines[w].pc = "encode"
    /\ GoStep(w, GoReturn(goroutines[w],
                          DeriveWalked(goroutines[w].mnemonic, goroutines[w].index,
                                       goroutines[w].masterKey, goroutines[w].calls)))

NextConcurrent ==
    \E w \in Goroutines :
        \/ GoCall(w)
        \/ GoNewSeed(w)
        \/ GoNewMasterKey(w)
        \/ GoNewChildKey(w)
        \/ GoEncode(w)

SpecConcurrent == Init /\ [][NextConcurrent]_vars

----------------------------------------------------------------------------
(* Callers of Config.LoadConfig (the tests of packages/shared/config): a   *)
(* Config is declared, and loaded from a path any number of times.         *)

\* var cfg Config
DeclareConfig ==
    /\ config' = ZeroConfig
    /\ loaded' = NoLoad
    /\ UNCHANGED <<mnemonicSecret, index, last, prev, goVars, dbVars, sqlVars>>

\* the receiver becomes r.cfg and the call is recorded
LoadConfigReturns(path, r) ==
    /\ config' = r.cfg
    /\ loaded' = [op |-> "LoadConfig", path |-> path, before |-> config,
                  err |-> r.err, parsed |-> r.parsed]

\* err = cfg.LoadConfig(path)
CallLoadConfig ==
    /\ \E path \in Paths : LoadConfigReturns(path, LoadConfig(config, path))
    /\ UNCHANGED <<mnemonicSecret, index, last, prev, goVars, dbVars, sqlVars>>

NextConfig == DeclareConfig \/ CallLoadConfig

SpecConfig == Init /\ [][NextConfig]_vars

----------------------------------------------------------------------------
(* Callers of DbConnect (the TestDbConnect tests): DbConnect is called     *)
(* with a context, a configuration and a password, with or without a      *)
(* database answering; a caller that got a pool may close it.              *)

\* how many pools can be open at a time
MaxPools == 2

Contexts == {"background", "cancelled"}

\* the database sections of the configurations passed to DbConnect
DbConfigs ==
    { ZeroConfig.DatabaseConfig,
      [User |-> "testuser", Host |-> "nonexistent-host-12345", Port |-> 5432,
       Database |-> "testdb", MaxConnections |-> 10],
      [User |-> "testuser", Host |-> "localhost", Port |-> 5432,
       Database |-> "testdb", MaxConnections |-> 10],
      [User |-> "testuser", Host |-> "localhost", Port |-> 5432,
       Database |-> "testdb", MaxConnections |-> 0],
      [User |-> "testuser", Host |-> "localhost", Port |-> 5432,
       Database |-> "testdb", MaxConnections |-> -1] }

\* the passwords passed to DbConnect
Passwords == {"", "testpass"}

\* no database answers, or one answers on localhost
ServerSets == { {}, {"localhost"} }

PoolIds == { p.id : p \in pools }

\* the pool a call creates next
NewPool == CHOOSE id \in 1..MaxPools : id \notin PoolIds

\* the call returns r; a pool it created is open, returned or not
DbConnectReturns(ctx, dbCfg, password, r) ==
    /\ r.created => PoolIds # 1..MaxPools
    /\ db' = [op |-> "DbConnect", ctx |-> ctx, cfg |-> dbCfg,
              password |-> password,
              pool |-> IF r.returned THEN NewPool ELSE NilPool,
              err |-> r.err, trace |-> r.trace]
    /\ pools' = IF r.created
                THEN pools \cup {[id |-> NewPool, returned |-> r.returned]}
                ELSE pools

\* pool, err := DbConnect(ctx, cfg, password)
CallDbConnect ==
    /\ \E ctx \in Contexts, dbCfg \in DbConfigs, password \in Passwords,
          servers \in ServerSets :
          DbConnectReturns(ctx, dbCfg, password,
                           DbConnect(ctx, dbCfg, password, servers))
    /\ UNCHANGED <<mnemonicSecret, index, last, prev, goVars, configVars, sqlVars>>

\* models_test.go:1601-1604: pool.Close() on a pool that was returned
ClosePool ==
    /\ \E p \in pools : p.returned /\ pools' = pools \ {p}
    /\ UNCHANGED <<db, mnemonicSecret, index, last, prev, goVars, configVars, sqlVars>>

NextDb == CallDbConnect \/ ClosePool

SpecDb == Init /\ [][NextDb]_vars

----------------------------------------------------------------------------
(* Callers of the statements on clients and accounts.  query is the        *)
(* statement executed last: its name, arguments, rows and error; every     *)
(* statement replaces it, so that its rows are rows of the tables as they  *)
(* are.                                                                    *)

\* how many accounts are created
MaxAccounts == 2

ApiKeys == {"key-a", "key-b"}

\* the identifiers passed to the statements: NilUUID and the ones of rows
UUIDs == NilUUID..(MaxAccounts + 1)

Executed(name, args, result) ==
    query' = [name |-> name, args |-> args, rows |-> result.rows,
              err |-> result.err]

ClientCreated(apiKey, r) ==
    /\ clients' = r.table
    /\ Executed("CreateClient", <<"client", apiKey>>, r.result)

ExecCreateClient ==
    /\ \E apiKey \in ApiKeys :
          ClientCreated(apiKey, CreateClient(clients, "client", apiKey))
    /\ UNCHANGED <<accounts, accountsColumns>>
    /\ UNCHANGED <<mnemonicSecret, index, last, prev, goVars, configVars,
                   dbVars>>

(* 001_clients.sql:9: is_active is a column that defaults to TRUE and can  *)
(* be updated to FALSE or NULL; no statement of the repository does, an    *)
(* operator of the database does.                                          *)
UpdateClientIsActive ==
    /\ \E c \in clients, flag \in {"TRUE", "FALSE", Null} :
          /\ c.is_active # flag
          /\ clients' = (clients \ {c}) \cup {[c EXCEPT !.is_active = flag]}
          /\ Executed("UpdateClientIsActive", <<c.id, flag>>, QueryResult({}, NoError))
    /\ UNCHANGED <<accounts, accountsColumns>>
    /\ UNCHANGED <<mnemonicSecret, index, last, prev, goVars, configVars,
                   dbVars>>

ExecGetClientByAPIKey ==
    /\ \E apiKey \in ApiKeys \cup {"key-c"} :
          Executed("GetClientByAPIKey", <<apiKey>>,
                   GetClientByAPIKey(clients, apiKey))
    /\ UNCHANGED <<clients, accounts, accountsColumns>>
    /\ UNCHANGED <<mnemonicSecret, index, last, prev, goVars, configVars,
                   dbVars>>

ExecGetClientByID ==
    /\ \E id \in UUIDs :
          Executed("GetClientByID", <<id>>, GetClientByID(clients, id))
    /\ UNCHANGED <<clients, accounts, accountsColumns>>
    /\ UNCHANGED <<mnemonicSecret, index, last, prev, goVars, configVars,
                   dbVars>>

AccountCreated(clientID, r) ==
    /\ accounts' = r.table
    /\ Executed("CreateAccount", <<clientID, "account">>, r.result)

ExecCreateAccount ==
    /\ Cardinality(accounts) < MaxAccounts
    /\ \E clientID \in UUIDs :
          AccountCreated(clientID,
                         CreateAccount(accounts, accountsColumns, clients,
                                       clientID, "account"))
    /\ UNCHANGED <<clients, accountsColumns>>
    /\ UNCHANGED <<mnemonicSecret, index, last, prev, goVars, configVars,
                   dbVars>>

ExecGetAccountsByClientID ==
    /\ \E clientID \in UUIDs :
          Executed("GetAccountsByClientID", <<clientID>>,
                   GetAccountsByClientID(accounts, accountsColumns, clientID))
    /\ UNCHANGED <<clients, accounts, accountsColumns>>
    /\ UNCHANGED <<mnemonicSecret, index, last, prev, goVars, configVars,
                   dbVars>>

ExecGetAccountByIDAndClientID ==
    /\ \E id \in UUIDs, clientID \in UUIDs :
          Executed("GetAccountByIDAndClientID", <<id, clientID>>,
                   GetAccountByIDAndClientID(accounts, accountsColumns,
                                             id, clientID))
    /\ UNCHANGED <<clients, accounts, accountsColumns>>
    /\ UNCHANGED <<mnemonicSecret, index, last, prev, goVars, configVars,
                   dbVars>>

(* The accounts table of 002_accounts.sql:7-13 is brought to the one the   *)
(* statement of lines 23-26 and migrations_test.go need.                   *)
AddAddressIndex ==
    /\ accountsColumns = AccountsTable
    /\ accountsColumns' = AccountsTableIndexed
    /\ accounts' = { WithAddressIndex(a) : a \in accounts }
    /\ Executed("AddAddressIndex", <<>>, QueryResult({}, NoError))
    /\ UNCHANGED clients
    /\ UNCHANGED <<mnemonicSecret, index, last, prev, goVars, configVars,
                   dbVars>>

NextSql ==
    \/ AddAddressIndex
    \/ ExecCreateClient
    \/ UpdateClientIsActive
    \/ ExecGetClientByAPIKey
    \/ ExecGetClientByID
    \/ ExecCreateAccount
    \/ ExecGetAccountsByClientID
    \/ ExecGetAccountByIDAndClientID

SpecSql == Init /\ [][NextSql]_vars

----------------------------------------------------------------------------
(* Properties.                                                             *)

IsDerive(o) == o.op = "DeriveTronAddressFromMnemonic"
IsEncode(o) == o.op = "PrivateKeyToTronAddress"
Succeeded(o) == ~o.panic /\ o.err = NoError

(* C1.  Round trip: whenever DeriveTronAddressFromMnemonic(m, i) succeeded *)
(* with (addr, privHex), privHex decodes as hex, and a call of             *)
(* PrivateKeyToTronAddress on the decoded bytes succeeds and returns       *)
(* exactly addr.                                                           *)
C1_RoundTrip ==
    (IsDerive(prev) /\ Succeeded(prev)) =>
        /\ DecodeString(prev.privateKeyHex).err = NoError
        /\ (IsEncode(last)
            /\ last.privateKey = DecodeString(prev.privateKeyHex).bytes) =>
               (last.err = NoError /\ last.address = prev.address)

\* C1 witness: a derivation of the program's mnemonic succeeded and its
\* decoded key was then encoded, giving a non-empty address
C1_Witness ==
    /\ IsDerive(prev) /\ Succeeded(prev) /\ prev.mnemonic = DefaultMnemonic
    /\ IsEncode(last)
    /\ last.privateKey = DecodeString(prev.privateKeyHex).bytes
    /\ last.address # <<>>

C3_Shaped(dec) ==
    /\ Len(dec) = 25
    /\ dec[1] = 65
    /\ SubSeq(dec, 22, 25) = SubSeq(Keccak256(SubSeq(dec, 1, 21)), 1, 4)

C3_AddressShape ==
    (last.op # "none" /\ Succeeded(last)) => C3_Shaped(Base58Decode(last.address))

\* C3 witness: the empty key was encoded and its address decodes to 25 bytes
C3_Witness ==
    /\ IsEncode(last) /\ last.privateKey = <<>> /\ Succeeded(last)
    /\ Len(Base58Decode(last.address)) = 25

(* C4.  Error propagation: when one of the NewChildKey calls of the path  *)
(* fails, it is the last call made, nothing is encoded, nothing panics,    *)
(* and the call returns that error.                                        *)
C4_ErrorPropagated ==
    IsDerive(last) =>
        \A k \in 1..Len(last.calls) :
            last.calls[k].err # NoError =>
                /\ k = Len(last.calls)
                /\ ~last.panic
                /\ ~last.enc.called
                /\ last.err = last.calls[k].err

(* C5.  Whatever the index, the last step of the walk is a non-hardened    *)
(* derivation with the index as child number: its HMAC message is the      *)
(* parent's compressed public key followed by the four index bytes.        *)
C5_LastStepNonHardened ==
    (IsDerive(last) /\ Len(last.calls) = 5 /\ ~last.calls[5].panic) =>
        /\ last.calls[5].childIdx = last.index
        /\ ~last.calls[5].hardened
        /\ last.calls[5].data
           = publicKeyForPrivateKey(last.calls[5].parent.Key)
             \o uint32Bytes(last.index)

\* the path m/44'/195'/0'/0/index as child numbers
C6_Path(idx) == <<U32(32768, 44), U32(32768, 195), U32(32768, 0), U32(0, 0), idx>>

(* C6.  Derivation order: the master key is the one of the seed of         *)
(* (mnemonic, ""); the calls made are, in order, the steps 44', 195', 0',  *)
(* 0, index, each on the key the step before returned (the first on the    *)
(* master key); a successful call made all five and returns and encodes    *)
(* the key of the last.                                                    *)
C6_DerivationOrder ==
    IsDerive(last) =>
        /\ last.master = NewMasterKey(NewSeed(last.mnemonic, <<>>)).key
        /\ Len(last.calls) <= 5
        /\ ~last.master.nil => Len(last.calls) >= 1
        /\ \A k \in 1..Len(last.calls) :
              /\ last.calls[k].childIdx = C6_Path(last.index)[k]
              /\ last.calls[k].parent
                 = IF k = 1 THEN last.master ELSE last.calls[k - 1].key
              /\ (~last.calls[k].panic /\ k <= 3) => last.calls[k].hardened
              /\ (~last.calls[k].panic /\ k = 4) => ~last.calls[k].hardened
        /\ Succeeded(last) =>
              /\ Len(last.calls) = 5
              /\ last.privateKeyHex = EncodeToString(last.calls[5].key.Key)
              /\ last.enc.privateKey = last.calls[5].key.Key
              /\ last.address = last.enc.address

\* C6 witness: a derivation walked the five steps and returned an address
C6_Witness ==
    /\ IsDerive(last) /\ Succeeded(last) /\ Len(last.calls) = 5
    /\ last.address # <<>>
    /\ last.enc.privateKey = last.calls[5].key.Key

(* C7 as stated.  PrivateKeyToTronAddress fails, and returns no address,   *)
(* when the scalar of the key is zero or not below the order of the curve. *)
C7_InvalidScalarFails ==
    (last.enc.called /\ (last.enc.d = 0 \/ last.enc.d >= P256.n)) =>
        (last.enc.err # NoError /\ last.enc.address = <<>>)

(* C7.  PrivateKeyToTronAddress never fails: for every key, the scalar     *)
(* zero and the scalars not below the order included, it returns a nil     *)
(* error and an address, that of the scalar reduced modulo the order (the  *)
(* pair (0, 0) standing for the multiple zero).                            *)
C7_NeverFails ==
    last.enc.called =>
        /\ last.enc.err = NoError
        /\ last.enc.address # <<>>
        /\ <<last.enc.X, last.enc.Y>>
           = IF last.enc.d % P256.n = 0 THEN <<0, 0>>
             ELSE ScalarMult(P256, last.enc.d % P256.n)

\* C7 witness: a key whose scalar is not below the order was encoded
C7_Witness ==
    /\ IsEncode(last) /\ last.enc.d >= P256.n
    /\ last.err = NoError /\ last.address # <<>>

(* C8.  The all-zero key and the all-0xFF key of the key length are        *)
(* encoded with a nil error and a non-empty address, the same address on   *)
(* every repetition.                                                       *)
C8_BoundaryKeys ==
    (IsEncode(last)
     /\ last.privateKey \in {Zeros(KeyLen), Repeat(255, KeyLen)}) =>
        /\ last.err = NoError
        /\ last.address # <<>>
        /\ (IsEncode(prev) /\ prev.privateKey = last.privateKey) =>
               prev.address = last.address

\* C8 witness: the all-zero key was encoded twice, with a nil error both times
C8_Witness ==
    /\ IsEncode(prev) /\ prev.privateKey = Zeros(KeyLen)
    /\ IsEncode(last) /\ last.privateKey = Zeros(KeyLen)
    /\ prev.err = NoError /\ last.err = NoError /\ last.address # <<>>

(* C9.  Curve consistency: the derivation steps and the address encoding   *)
(* use the same curve, so the derived key is, unreduced, a valid scalar of *)
(* the encoding (above zero and below the order).                          *)
C9_SameCurve ==
    (IsDerive(last) /\ Succeeded(last)) =>
        /\ \A k \in 1..Len(last.calls) : last.calls[k].curve = last.enc.curve
        /\ last.enc.d > 0
        /\ last.enc.d < P256.n

(* C10.  Public-key serialization: the bytes written to the first hash are *)
(* the X coordinate followed by the Y coordinate, each left-padded with    *)
(* zero bytes to the coordinate length, and the serialized public key is   *)
(* 0x04 followed by them.                                                  *)
C10_Serialization ==
    (last.enc.called /\ last.enc.err = NoError) =>
        /\ Len(last.enc.hashed) = 2 * P256.size
        /\ last.enc.hashed
           = Zeros(P256.size - Len(Bytes(last.enc.X))) \o Bytes(last.enc.X)
             \o Zeros(P256.size - Len(Bytes(last.enc.Y))) \o Bytes(last.enc.Y)
        /\ last.enc.pubKey = <<4>> \o last.enc.hashed

(* C11.  Short-key padding: a key and the same key left-padded with zero  *)
(* bytes (to the key length, or beyond it) are encoded with the same       *)
(* result.                                                                 *)
C11_LeftPadding ==
    (/\ IsEncode(prev) /\ IsEncode(last)
     /\ \E n \in 1..(KeyLen + MaxPad) :
           last.privateKey = Zeros(n) \o prev.privateKey) =>
        /\ last.err = prev.err
        /\ last.address = prev.address

\* C11 witness: the key 0x01 and then the key 0x00 0x01 were encoded
C11_Witness ==
    /\ IsEncode(prev) /\ prev.privateKey = <<1>>
    /\ IsEncode(last) /\ last.privateKey = <<0, 1>>
    /\ last.err = NoError /\ last.address # <<>>

(* C12.  Every address returned without error begins with the letter T,   *)
(* consists of characters of the base-58 alphabet only (none of 0, O, I,   *)
(* l), and is between 30 and 35 characters long.                           *)
C12_AddressText ==
    (last.op # "none" /\ Succeeded(last)) =>
        /\ Len(last.address) >= 30 /\ Len(last.address) <= 35
        /\ last.address[1] = "T"
        /\ \A k \in 1..Len(last.address) :
              /\ IsBase58Char(last.address[k])
              /\ last.address[k] \notin {"0", "O", "I", "l"}

\* C12 witness: a derivation returned an address of 34 characters
C12_Witness ==
    /\ IsDerive(last) /\ Succeeded(last)
    /\ Len(last.address) = 34 /\ last.address[1] = "T"


(* C13: for every successful call of DeriveTronAddressFromMnemonic the     *)
(* returned privateKeyHex has exactly two hexadecimal characters for each  *)
(* byte of the key length (64 characters for 32 bytes) and decodes to      *)
(* exactly that many bytes; a derived key with leading zero bytes is still *)
(* rendered at full width.                                                 *)
C13_Decoded(hex, dec) ==
    /\ Len(hex) = 2 * KeyLen
    /\ \A k \in 1..Len(hex) : IsHexChar(hex[k])
    /\ dec.err = NoError
    /\ Len(dec.bytes) = KeyLen

C13_FullWidthHex ==
    (IsDerive(last) /\ Succeeded(last)) =>
        C13_Decoded(last.privateKeyHex, DecodeString(last.privateKeyHex))

\* a derivation returned a key whose first byte is zero
C13_Witness ==
    /\ IsDerive(last) /\ Succeeded(last)
    /\ Len(last.privateKeyHex) = 2 * KeyLen
    /\ last.privateKeyHex[1] = "0" /\ last.privateKeyHex[2] = "0"
    /\ SetBytes(DecodeString(last.privateKeyHex).bytes) > 0

C14_FailedStep(o) ==
    \E k \in 1..Len(o.calls) : o.calls[k].err # NoError

RunAlone ==
    [inp \in GoInputs |-> DeriveTronAddressFromMnemonic(inp[1], inp[2])]

C16_FirstFailure(o) ==
    IF o.master.nil THEN ErrInvalidPrivateKey
    ELSE IF C14_FailedStep(o)
    THEN o.calls[CHOOSE k \in 1..Len(o.calls) :
                    /\ o.calls[k].err # NoError
                    /\ \A j \in 1..(k - 1) : o.calls[j].err = NoError].err
    ELSE o.enc.err

C16_FailureFrame ==
    (IsDerive(last) /\ C16_FirstFailure(last) # NoError) =>
        /\ ~last.panic
        /\ last.err = C16_FirstFailure(last)
        /\ last.log = <<>>
        /\ last.address = <<>>
        /\ last.privateKeyHex = <<>>

C17_LastData(o) == o.calls[Len(o.calls)].data

C18_FullLength(o) == IsEncode(o) /\ Len(o.privateKey) = KeyLen

C19_Unreadable(path) ==
    \/ FileSystem[path].kind \in {"missing", "directory"}
    \/ ~FileSystem[path].readable

\* the lines are well indented and every named field gets a value of its kind
C19_ValidFor(doc) ==
    /\ SyntaxOk(doc)
    /\ \A i \in 1..Len(doc) :
          LET kind == FieldKind(ParentOf(doc, i), doc[i].key)
              tag == Resolve(doc[i].text)
          IN  \/ kind = "none"
              \/ tag = "null"
              \/ kind = "string"
              \/ kind = tag

C19_LoadConfigErrors ==
    loaded.op = "LoadConfig" =>
        IF C19_Unreadable(loaded.path)
        THEN Contains(loaded.err, "failed to read config") /\ ~loaded.parsed
        ELSE IF ~C19_ValidFor(FileSystem[loaded.path].content)
        THEN Contains(loaded.err, "failed to parse config") /\ loaded.parsed
        ELSE loaded.err = NoError /\ loaded.parsed

\* a file with a text where a number is expected was read and refused
C19_Witness ==
    /\ loaded.op = "LoadConfig" /\ loaded.path = "invalid.yaml"
    /\ loaded.parsed
    /\ Contains(loaded.err, "failed to parse config")

(* C20.  DbConnect returns a non-nil pool if and only if it returns a nil  *)
(* error: whenever parsing the configuration, creating the pool or the     *)
(* ping failed, the call returned (nil, error); a pool is returned only    *)
(* after the pool was created and then a ping succeeded, in that order.    *)
C20_Failed(trace) == \E k \in 1..Len(trace) : trace[k].err # NoError

C20_CreatedThenPinged(trace) ==
    \E i, j \in 1..Len(trace) :
        /\ i < j
        /\ trace[i] = TraceEntry("NewWithConfig", NoError)
        /\ trace[j] = TraceEntry("Ping", NoError)

C20_PoolIffNoError ==
    db.op = "DbConnect" =>
        /\ (db.pool # NilPool) <=> (db.err = NoError)
        /\ C20_Failed(db.trace) => (db.pool = NilPool /\ db.err # NoError)
        /\ db.pool # NilPool => C20_CreatedThenPinged(db.trace)

\* a call made the three library calls and returned a pool, which is open
C20_Witness ==
    /\ db.op = "DbConnect" /\ db.pool # NilPool /\ db.err = NoError
    /\ [id |-> db.pool, returned |-> TRUE] \in pools
    /\ Len(db.trace) = 3

----------------------------------------------------------------------------
(* C21: tenant isolation of the account statements.  After any sequence of *)
(* CreateAccount statements, GetAccountByIDAndClientID(id, clientID)       *)
(* returns only a row of the table accounts that has both that id and that *)
(* client_id, and GetAccountsByClientID(clientID) returns exactly the rows *)
(* of accounts whose client_id is clientID: never a row of another client. *)

\* the row is the account a, in the columns cols
C21_IsAccount(row, a, cols) == \A c \in cols : row[c] = a[c]

C21_Listed == {"id", "client_id", "name", "created_at"}

C21_TenantIsolation ==
    /\ query.name = "GetAccountByIDAndClientID" =>
          \A row \in query.rows :
              /\ row.id = query.args[1]
              /\ row.client_id = query.args[2]
              /\ \E a \in accounts : C21_IsAccount(row, a, C21_Listed)
    /\ query.name = "GetAccountsByClientID" =>
          /\ query.err = NoError
          /\ \A row \in query.rows :
                /\ row.client_id = query.args[1]
                /\ \E a \in accounts : C21_IsAccount(row, a, C21_Listed)
          /\ \A a \in accounts :
                a.client_id = query.args[1] =>
                    \E row \in query.rows : C21_IsAccount(row, a, C21_Listed)

(* Two clients have an account each, and a statement returned the account  *)
(* of one of them.                                                         *)
C21_Witness ==
    /\ query.name \in {"GetAccountsByClientID", "GetAccountByIDAndClientID"}
    /\ query.rows # {}
    /\ \E a \in accounts : a.client_id \notin { r.client_id : r \in query.rows }

----------------------------------------------------------------------------
(* C22: GetClientByAPIKey returns a client only if a client with that      *)
(* api_key exists and its is_active is TRUE, and then returns that client; *)
(* GetClientByID returns the client with that id whatever its is_active.   *)

C22_ActiveClientsOnly ==
    /\ query.name = "GetClientByAPIKey" =>
          /\ \A row \in query.rows :
                /\ row \in clients
                /\ row.api_key = query.args[1]
                /\ row.is_active = "TRUE"
          /\ (query.rows = {}) <=>
                ~\E c \in clients :
                    c.api_key = query.args[1] /\ c.is_active = "TRUE"
          /\ (query.rows = {}) <=> (query.err = ErrNoRows)
    /\ query.name = "GetClientByID" =>
          /\ query.rows = { c \in clients : c.id = query.args[1] }
          /\ (query.rows = {}) <=> (query.err = ErrNoRows)

(* A client with the api key exists and is not active (FALSE or NULL), and *)
(* GetClientByAPIKey was executed with that key.                           *)
C22_Witness ==
    /\ query.name = "GetClientByAPIKey"
    /\ \E c \in clients :
          /\ c.api_key = query.args[1]
          /\ c.is_active = Null
    /\ \E c \in clients : c.is_active = "FALSE"

----------------------------------------------------------------------------
(* C23: payload content.  For every key PrivateKeyToTronAddress accepts,   *)
(* bytes [1:21] of the base-58-decoded address are the last 20 bytes       *)
(* (h[12:32]) of the Keccak-256 digest h of the X coordinate followed by   *)
(* the Y coordinate of the public key d*G, d being the key read as a       *)
(* big-endian unsigned integer.  G is the base point of the curve of       *)
(* main.go:73 and a coordinate is written as big.Int.Bytes() writes it.    *)

\* d*G as the pair of its coordinates, (0, 0) for the point at infinity
C23_PublicKey(d) ==
    IF d % P256.n = 0 THEN <<0, 0>> ELSE ScalarMult(P256, d % P256.n)

C23_Digest(Q) == Keccak256(Bytes(Q[1]) \o Bytes(Q[2]))

C23_Payload(dec, h) == SubSeq(dec, 2, 21) = SubSeq(h, 13, 32)

C23_PayloadContent ==
    (last.enc.called /\ Succeeded(last)) =>
        C23_Payload(Base58Decode(last.address),
                    C23_Digest(C23_PublicKey(SetBytes(last.enc.privateKey))))

(* A key of full length below the group order was encoded, and the first  *)
(* and the last twenty bytes of the digest differ.                         *)
C23_Witness ==
    /\ IsEncode(last) /\ Succeeded(last)
    /\ last.privateKey = <<1, 0>>
    /\ Len(Base58Decode(last.address)) = 25
    /\ SubSeq(Keccak256(last.enc.hashed), 1, 20)
         # SubSeq(Keccak256(last.enc.hashed), 13, 32)

----------------------------------------------------------------------------
(* C24: outputs on error.  Whenever DeriveTronAddressFromMnemonic returns  *)
(* a non-nil error, the address and the private-key hex it returns are     *)
(* both the empty string; whenever PrivateKeyToTronAddress returns a       *)
(* non-nil error its address is the empty string; and a nil error always   *)
(* comes with non-empty outputs.                                           *)
C24_OutputsOnError ==
    (last.op # "none" /\ ~last.panic) =>
        /\ last.err # NoError =>
              (last.address = <<>> /\ last.privateKeyHex = <<>>)
        /\ last.err = NoError =>
              /\ last.address # <<>>
              /\ IsDerive(last) => last.privateKeyHex # <<>>

(* A derivation whose master key is valid returned the error of its last   *)
(* NewChildKey call, and before it a call returned without error.          *)
C24_Witness ==
    /\ IsDerive(last) /\ ~last.panic /\ last.err # NoError
    /\ Len(last.calls) = 5
    /\ prev.op # "none" /\ Succeeded(prev)

----------------------------------------------------------------------------
(* C25: PrivateKeyToTronAddress is total.  For every byte slice (nil,      *)
(* empty, shorter than a key, of the key length, longer, all zero) the     *)
(* call returns without a panic, with either an address or an error.       *)
C25_Total ==
    IsEncode(last) =>
        /\ last.enc.called
        /\ ~last.panic
        /\ \/ last.err # NoError /\ last.address = <<>>
           \/ last.err = NoError /\ C3_Shaped(Base58Decode(last.address))

(* The empty slice was encoded after a slice longer than a key, and both   *)
(* calls returned an address.                                              *)
C25_Witness ==
    /\ IsEncode(prev) /\ Len(prev.privateKey) > KeyLen /\ Succeeded(prev)
    /\ IsEncode(last) /\ last.privateKey = <<>> /\ Succeeded(last)
    /\ last.address # <<>> /\ prev.address # <<>>

----------------------------------------------------------------------------
(* C26: reload independence of LoadConfig.  As claimed: after a successful *)
(* LoadConfig(path) on a Config that was loaded before, the Config equals  *)
(* the one obtained by loading the file into a zero Config, so that a      *)
(* field absent from the file has its zero value.                          *)
C26_ReloadIndependent ==
    (loaded.op = "LoadConfig" /\ loaded.err = NoError) =>
        config = LoadConfig(ZeroConfig, loaded.path).cfg

\* the fields of Config, each by the key of its mapping and its own key
C26_Fields ==
    { <<"", "debug">>, <<"", "appPort">>, <<"database", "user">>,
      <<"database", "host">>, <<"database", "port">>,
      <<"database", "database">>, <<"database", "maxConnections">> }

C26_Value(c, f) ==
    CASE f = <<"", "debug">> -> c.Debug
      [] f = <<"", "appPort">> -> c.AppPort
      [] f = <<"database", "user">> -> c.DatabaseConfig.User
      [] f = <<"database", "host">> -> c.DatabaseConfig.Host
      [] f = <<"database", "port">> -> c.DatabaseConfig.Port
      [] f = <<"database", "database">> -> c.DatabaseConfig.Database
      [] f = <<"database", "maxConnections">> -> c.DatabaseConfig.MaxConnections

\* the file gives the field a value
C26_Present(doc, f) ==
    \E i \in 1..Len(doc) :
        /\ doc[i].key = f[2]
        /\ ParentOf(doc, i) = f[1]
        /\ Resolve(doc[i].text) # "null"

C26_Merged(c, before, fresh, doc) ==
    \A f \in C26_Fields :
        C26_Value(c, f) = IF C26_Present(doc, f) THEN C26_Value(fresh, f)
                          ELSE C26_Value(before, f)

(* C26, amended: after a successful LoadConfig(path) every field the file  *)
(* gives a value has the value a load into a zero Config gives it, and     *)
(* every other field keeps the value it had before the call; the Config    *)
(* equals the freshly loaded one when the file gives every field a value   *)
(* or the receiver was zero-valued.                                        *)
C26_ReloadMerges ==
    (loaded.op = "LoadConfig" /\ loaded.err = NoError) =>
        /\ C26_Merged(config, loaded.before,
                      LoadConfig(ZeroConfig, loaded.path).cfg,
                      FileSystem[loaded.path].content)
        /\ loaded.before = ZeroConfig =>
              config = LoadConfig(ZeroConfig, loaded.path).cfg

(* The partial file was loaded into a Config that held the first file, and *)
(* the database user of the first file is still there.                     *)
C26_Witness ==
    /\ loaded.op = "LoadConfig" /\ loaded.err = NoError
    /\ loaded.path = "partial.yaml"
    /\ loaded.before.DatabaseConfig.User = "firstuser"
    /\ config.DatabaseConfig.User = "firstuser"
    /\ config.AppPort = 5000

----------------------------------------------------------------------------
(* C27: PrivateKeyToTronAddress depends only on the unsigned big-endian    *)
(* integer its input denotes: two byte slices that denote the same integer *)
(* (slices that differ by leading zero bytes only, or the empty slice and  *)
(* the all-zero key) yield the same address.                               *)
C27_SameInteger ==
    (/\ IsEncode(prev) /\ IsEncode(last)
     /\ SetBytes(prev.privateKey) = SetBytes(last.privateKey)) =>
        /\ last.err = prev.err
        /\ last.address = prev.address
        /\ last.enc.hashed = prev.enc.hashed

\* the empty slice and then the all-zero key were encoded
C27_Witness ==
    /\ IsEncode(prev) /\ prev.privateKey = <<>>
    /\ IsEncode(last) /\ last.privateKey = Zeros(KeyLen)
    /\ Succeeded(last) /\ last.address = prev.address

----------------------------------------------------------------------------
(* C28: frame.  A call of DeriveTronAddressFromMnemonic or of              *)
(* PrivateKeyToTronAddress leaves the caller's private-key byte slice and  *)
(* the package-level variables mnemonicSecret and index as they were, and  *)
(* its result is determined by its own parameters, whatever the values of  *)
(* those variables.                                                        *)

\* what the call recorded in o returns for its parameters alone
C28_OfParameters(o) ==
    IF IsDerive(o)
    THEN DeriveFromMaster(o.mnemonic, o.index,
                          NewMasterKey(NewSeed(o.mnemonic, <<>>)))
    ELSE AddressOutcomeOf(o.privateKey,
                          EncodingOf(o.privateKey, PublicKeyPoint(o.privateKey)))

----------------------------------------------------------------------------
(* C29: state unchanged on error.  As claimed: whenever LoadConfig returns *)
(* an error (read failure or parse failure), every field of the receiver   *)
(* has the value it had before the call.                                   *)
C29_UnchangedOnError ==
    (loaded.op = "LoadConfig" /\ loaded.err # NoError) =>
        config = loaded.before

\* the file gives the field a value that fits the kind of the field
C29_Fitted(doc, f) ==
    \E i \in 1..Len(doc) :
        /\ doc[i].key = f[2]
        /\ ParentOf(doc, i) = f[1]
        /\ Resolve(doc[i].text) # "null"
        /\ Fits(FieldKind(f[1], f[2]), doc[i].text)

C29_TypeError == Errorf("failed to parse config", YamlTypeError)

C29_Partial(c, before, fresh, doc) ==
    \A f \in C26_Fields :
        C26_Value(c, f) = IF C29_Fitted(doc, f) THEN C26_Value(fresh, f)
                          ELSE C26_Value(before, f)

(* C29, amended: when LoadConfig fails to read the file, or the file is    *)
(* not well-formed YAML, the receiver is unchanged; when the file is       *)
(* well-formed and a value does not fit its field, the fields whose values *)
(* fit are set from the file and the other fields are unchanged.           *)
C29_ChangedOnTypeErrorOnly ==
    (loaded.op = "LoadConfig" /\ loaded.err # NoError) =>
        IF loaded.err = C29_TypeError
        THEN C29_Partial(config, loaded.before,
                         LoadConfig(ZeroConfig, loaded.path).cfg,
                         FileSystem[loaded.path].content)
        ELSE config = loaded.before

(* The file of TestConfig_LoadConfig_InvalidYAML was loaded into a zero    *)
(* Config: the call failed, debug and the database user were set.          *)
C29_Witness ==
    /\ loaded.op = "LoadConfig" /\ loaded.path = "invalid.yaml"
    /\ loaded.err = C29_TypeError
    /\ loaded.before = ZeroConfig
    /\ config.Debug /\ config.DatabaseConfig.User = "user"
    /\ config.AppPort = 0

----------------------------------------------------------------------------
(* C30: no leaked pool.  Whenever DbConnect returns an error, no pool that *)
(* the call created remains open: a pool whose ping failed is closed       *)
(* before DbConnect returns.  Every open pool is then one that a call      *)
(* returned to its caller.                                                 *)
C30_NoLeakedPool ==
    (db.op = "DbConnect" /\ db.err # NoError) =>
        \A p \in pools : p.returned
====
